---- MODULE Spec2Model ----
(***************************************************************************)
(* KubernetesJob.run() of src/prefect/infrastructure/kubernetes.py as a    *)
(* state machine: configure the client, build the manifest, create the     *)
(* job, signal task_status, then _watch_job: read the job, watch for a     *)
(* pod that left "Pending", optionally stream its log, watch for the job's *)
(* completion_time, read the pod status and return a KubernetesJobResult.  *)
(*                                                                         *)
(* The cluster is the environment.  Time passes in Tick steps; a Tick is   *)
(* possible only while every running invocation is blocked (in a watch, in *)
(* the log stream, or waiting for its worker thread), and it lets the      *)
(* cluster change: the pod starts, its container exits, the job completes, *)
(* the job or the pod is deleted.  A watch delivers an event as soon as    *)
(* one is queued and ends when timeout_seconds ticks have passed.          *)
(***************************************************************************)
EXTENDS Integers, Sequences, FiniteSets, TLC

VARIABLES
    cfg,            \* per invocation: the fields of the KubernetesJob and the faults it will meet
    pc,             \* per invocation: position in run() / _watch_job()
    defaultConfig,  \* process-wide client configuration set at the start of run()
    cluster,        \* the job and its pod as the control plane holds them
    job_name,       \* per invocation: the name returned by _create_job
    job,            \* per invocation: metadata.name of the V1Job read by _get_job
    pod,            \* per invocation: metadata.name of the V1Pod returned by _get_job_pod
    last_phase,     \* per invocation: last_phase of _get_job_pod
    elapsed,        \* per invocation: ticks since the open watch was opened
    pending,        \* per invocation: an event is queued on the open watch
    otherPod,       \* a second pod of the job, when the job controller starts one
    eventPods,      \* per invocation: the pods of the events queued on its pod watch, oldest first
    createCalls,    \* per invocation: number of create_namespaced_job calls
    startedSignals, \* per invocation: number of task_status.started calls
    clients,        \* per invocation: the API clients currently open
    streams,        \* per invocation: the watch and log streams currently open
    log,            \* per invocation: the stages started and how each ended
    outcome,        \* per invocation: "none", "returned" or "raised"
    result,         \* per invocation: the KubernetesJobResult returned ({} while there is none)
    podEvents,      \* per invocation: the events the loop of _get_job_pod has taken from its watch
    messages,       \* per invocation: the phases logged by "Pod has status ..."
    jobEvents,      \* per invocation: the events the loop of the completion watch has taken
    logTarget,      \* per invocation: the pod name given to read_namespaced_pod_log
    waited,         \* per invocation: the ticks spent in each stage that waits
    acquired,       \* per invocation: number of ApiClient objects made by get_client / get_batch_client
    calls,          \* per invocation: the API calls made so far, each with the job or pod name it was given
    configUsed,     \* per invocation: the client configurations its ApiClient objects were built from
    kj,             \* the fields given to KubernetesJob(...)
    bpc,            \* how far the object got: "new", "rejected", "valid", "built", "failed", "replayed"
    errors,         \* the ValueError of the validators: its kind and the paths it names
    manifest,       \* the manifest returned by build_job()
    replay,         \* the manifest rebuilt from the diff of the base job to the manifest
    text,           \* the string given to _slugify_name and _slugify_label
    slug,           \* what they returned, and what they return for that
    pairIn,         \* two configurations without a name
    pairOut         \* their /metadata/generateName values

histVars == <<podEvents, messages, jobEvents, logTarget, waited, acquired, calls,
             configUsed>>

runVars == <<cfg, pc, defaultConfig, cluster, job_name, job, pod, last_phase,
             elapsed, pending, otherPod, eventPods, createCalls, startedSignals, clients, streams,
             log, outcome, result, histVars>>

pureVars == <<kj, bpc, errors, manifest, replay, text, slug, pairIn, pairOut>>

vars == <<runVars, pureVars>>

----------------------------------------------------------------------------
(* Bounds and value sets *)

MaxTimeout == 2

Runs == {1, 2}

None == "None"

Timeouts == 1..MaxTimeout

ExitCodes == {0, 137}

JobNames == {"prefect-job-abc12", "prefect-job-xyz89"}

PodName == "prefect-job-pod-0"

Faults == {"none", "build", "create", "log_open", "log_drop"}

Upd(f, r, v) == [f EXCEPT ![r] = v]

\* One API call and the name of the job or the pod passed to it.
Call(api, name) == <<api, name>>

----------------------------------------------------------------------------
(* The cluster *)

NoJob ==
    [jobExists |-> FALSE, jobComplete |-> FALSE, podExists |-> FALSE,
     podPhase |-> "Pending", terminated |-> {}]

FreshJob ==
    [jobExists |-> TRUE, jobComplete |-> FALSE, podExists |-> TRUE,
     podPhase |-> "Pending", terminated |-> {}]

PhaseOfExit(c) == IF c = 0 THEN "Succeeded" ELSE "Failed"

\* The pod's next phase and the terminated state of its first container
\* (the empty set while it has none, {exit_code} once it has exited):
\* Pending -> Running -> Succeeded | Failed.
PodNext(c) ==
    IF ~c.podExists THEN {<<c.podPhase, c.terminated>>}
    ELSE IF c.podPhase = "Pending" THEN {<<"Pending", {}>>, <<"Running", {}>>}
    ELSE IF c.podPhase = "Running"
         THEN {<<"Running", {}>>} \cup {<<PhaseOfExit(x), {x}>> : x \in ExitCodes}
    ELSE {<<c.podPhase, c.terminated>>}

\* What the cluster may look like one tick later.  A deleted object keeps
\* its last state in the record (a DELETED watch event carries it).
ClusterNext(c) ==
    {[jobExists |-> je, jobComplete |-> jc, podExists |-> pe,
      podPhase |-> pp[1], terminated |-> pp[2]] :
        je \in (IF c.jobExists THEN {TRUE, FALSE} ELSE {FALSE}),
        jc \in (IF c.jobExists /\ ~c.jobComplete THEN {TRUE, FALSE} ELSE {c.jobComplete}),
        pe \in (IF c.podExists THEN {TRUE, FALSE} ELSE {FALSE}),
        pp \in PodNext(c)}

\* A job may run more than one pod (a replacement for a pod that failed, or
\* parallelism in the job template); every pod carries the job-name label.
OtherPodName == "prefect-job-pod-1"

NoOtherPod == [exists |-> FALSE, phase |-> "Pending", terminated |-> {}, started |-> FALSE]

OtherPodNext(v) ==
    {[exists |-> e, phase |-> pp[1], terminated |-> pp[2], started |-> v.started] :
        e \in (IF v.exists THEN {TRUE, FALSE} ELSE {FALSE}),
        pp \in PodNext([podExists |-> v.exists, podPhase |-> v.phase,
                        terminated |-> v.terminated])}

\* The pod of that name as the control plane holds it.
ThePod(name) ==
    IF name = OtherPodName
    THEN [exists |-> otherPod.exists, phase |-> otherPod.phase,
          terminated |-> otherPod.terminated]
    ELSE [exists |-> cluster.podExists, phase |-> cluster.podPhase,
          terminated |-> cluster.terminated]

----------------------------------------------------------------------------
(* Results and exits of run() *)

Sentinel == -1

WaitStages == {"pod_watch", "log_stream", "job_watch"}

NoWait == [s \in WaitStages |-> 0]

KubernetesJobResult(code, id) == [status_code |-> code, identifier |-> id]

Append2(s, a, b) == Append(Append(s, a), b)

Started(r, stage) == \E i \in 1..Len(log[r]) : log[r][i] = <<stage, "start">>

Ended(r, stage, how) == \E i \in 1..Len(log[r]) : log[r][i] = <<stage, how>>

Finished(r) == pc[r] = "done"

Return(r, res) ==
    /\ pc' = Upd(pc, r, "done")
    /\ outcome' = Upd(outcome, r, "returned")
    /\ result' = Upd(result, r, {res})

Raise(r) ==
    /\ pc' = Upd(pc, r, "done")
    /\ outcome' = Upd(outcome, r, "raised")
    /\ UNCHANGED result

Goto(r, label) ==
    /\ pc' = Upd(pc, r, label)
    /\ UNCHANGED <<outcome, result>>

----------------------------------------------------------------------------
(* run() *)

Configure(r) ==
    /\ pc[r] = "start"
    /\ defaultConfig' = r
    /\ Goto(r, "configured")
    /\ UNCHANGED <<pureVars, otherPod, eventPods, histVars, cfg, cluster, job_name, job, pod, last_phase, elapsed,
                   pending, createCalls, startedSignals, clients, streams, log>>

BuildJob(r) ==
    /\ pc[r] = "configured"
    /\ IF cfg[r].fault = "build"
       THEN /\ log' = Upd(log, r, Append2(log[r], <<"build", "start">>, <<"build", "error">>))
            /\ Raise(r)
       ELSE /\ log' = Upd(log, r, Append2(log[r], <<"build", "start">>, <<"build", "ok">>))
            /\ Goto(r, "built")
    /\ UNCHANGED <<pureVars, otherPod, eventPods, histVars, cfg, defaultConfig, cluster, job_name, job, pod, last_phase,
                   elapsed, pending, createCalls, startedSignals, clients, streams>>

\* CreateJob with a retry: a failed create call is made again.
CreateJobRetrying(r) ==
    /\ pc[r] = "built"
    /\ acquired' = Upd(acquired, r, acquired[r] + 1)
    /\ calls' = Upd(calls, r, calls[r] \cup {Call("create", None)})
    /\ configUsed' = Upd(configUsed, r, configUsed[r] \cup {defaultConfig})
    /\ createCalls' = Upd(createCalls, r, createCalls[r] + 1)
    /\ IF cfg[r].fault = "create"
       THEN /\ log' = Upd(log, r, Append2(log[r], <<"submit", "start">>, <<"submit", "error">>))
            /\ Goto(r, "built")
            /\ UNCHANGED <<cluster, job_name>>
       ELSE /\ log' = Upd(log, r, Append2(log[r], <<"submit", "start">>, <<"submit", "ok">>))
            /\ cluster' = IF cluster = NoJob THEN FreshJob ELSE cluster
            /\ job_name' = Upd(job_name, r, cfg[r].assigned_name)
            /\ Goto(r, "created")
    /\ UNCHANGED <<pureVars, otherPod, eventPods, podEvents, messages, jobEvents, logTarget, waited, cfg, defaultConfig, job, pod, last_phase, elapsed, pending,
                   startedSignals, clients, streams>>

\* CreateJob that swallows the exception of a failed create call.
CreateJobSwallows(r) ==
    /\ pc[r] = "built"
    /\ acquired' = Upd(acquired, r, acquired[r] + 1)
    /\ calls' = Upd(calls, r, calls[r] \cup {Call("create", None)})
    /\ configUsed' = Upd(configUsed, r, configUsed[r] \cup {defaultConfig})
    /\ createCalls' = Upd(createCalls, r, createCalls[r] + 1)
    /\ IF cfg[r].fault = "create"
       THEN /\ log' = Upd(log, r, Append2(log[r], <<"submit", "start">>, <<"submit", "error">>))
            /\ Goto(r, "created")
            /\ UNCHANGED <<cluster, job_name>>
       ELSE /\ log' = Upd(log, r, Append2(log[r], <<"submit", "start">>, <<"submit", "ok">>))
            /\ cluster' = IF cluster = NoJob THEN FreshJob ELSE cluster
            /\ job_name' = Upd(job_name, r, cfg[r].assigned_name)
            /\ Goto(r, "created")
    /\ UNCHANGED <<pureVars, otherPod, eventPods, podEvents, messages, jobEvents, logTarget, waited, cfg, defaultConfig, job, pod, last_phase, elapsed, pending,
                   startedSignals, clients, streams>>

CreateJob(r) ==
    /\ pc[r] = "built"
    /\ acquired' = Upd(acquired, r, acquired[r] + 1)
    /\ calls' = Upd(calls, r, calls[r] \cup {Call("create", None)})
    /\ configUsed' = Upd(configUsed, r, configUsed[r] \cup {defaultConfig})
    /\ createCalls' = Upd(createCalls, r, createCalls[r] + 1)
    /\ IF cfg[r].fault = "create"
       THEN /\ log' = Upd(log, r, Append2(log[r], <<"submit", "start">>, <<"submit", "error">>))
            /\ Raise(r)
            /\ UNCHANGED <<cluster, job_name>>
       ELSE /\ log' = Upd(log, r, Append2(log[r], <<"submit", "start">>, <<"submit", "ok">>))
            /\ cluster' = IF cluster = NoJob THEN FreshJob ELSE cluster
            /\ job_name' = Upd(job_name, r, cfg[r].assigned_name)
            /\ Goto(r, "created")
    /\ UNCHANGED <<pureVars, otherPod, eventPods, podEvents, messages, jobEvents, logTarget, waited, cfg, defaultConfig, job, pod, last_phase, elapsed, pending,
                   startedSignals, clients, streams>>

\* SignalStarted that gives the signal twice.
SignalStartedTwice(r) ==
    /\ pc[r] = "created"
    /\ startedSignals' = Upd(startedSignals, r,
                             IF cfg[r].task_status THEN startedSignals[r] + 2
                             ELSE startedSignals[r])
    /\ calls' = Upd(calls, r, IF cfg[r].task_status
                               THEN calls[r] \cup {Call("started", job_name[r])}
                               ELSE calls[r])
    /\ Goto(r, "monitor")
    /\ UNCHANGED <<pureVars, otherPod, eventPods, podEvents, messages, jobEvents, logTarget, waited, acquired,
                   configUsed, cfg, defaultConfig, cluster, job_name, job, pod, last_phase,
                   elapsed, pending, createCalls, clients, streams, log>>

SignalStarted(r) ==
    /\ pc[r] = "created"
    /\ startedSignals' = Upd(startedSignals, r,
                             IF cfg[r].task_status THEN startedSignals[r] + 1
                             ELSE startedSignals[r])
    /\ calls' = Upd(calls, r, IF cfg[r].task_status
                               THEN calls[r] \cup {Call("started", job_name[r])}
                               ELSE calls[r])
    /\ Goto(r, "monitor")
    /\ UNCHANGED <<pureVars, otherPod, eventPods, podEvents, messages, jobEvents, logTarget, waited, acquired,
                   configUsed, cfg, defaultConfig, cluster, job_name, job, pod, last_phase,
                   elapsed, pending, createCalls, clients, streams, log>>

----------------------------------------------------------------------------
(* _watch_job() *)

\* DegradedResult that identifies the job by the name of its pod.
DegradedResultNamesPod(r) == KubernetesJobResult(Sentinel, pod[r])

\* The result of every path of _watch_job that could not read an exit code.
DegradedResult(r) == KubernetesJobResult(Sentinel, job[r])

\* GetJob that reports success for a job that is gone.
GetJobMissingIsSuccess(r) ==
    /\ pc[r] = "monitor"
    /\ acquired' = Upd(acquired, r, acquired[r] + 1)
    /\ calls' = Upd(calls, r, calls[r] \cup {Call("read_job", job_name[r])})
    /\ configUsed' = Upd(configUsed, r, configUsed[r] \cup {defaultConfig})
    /\ IF cluster.jobExists
       THEN /\ job' = Upd(job, r, job_name[r])
            /\ log' = Upd(log, r, Append2(log[r], <<"job_read", "start">>, <<"job_read", "ok">>))
            /\ Goto(r, "have_job")
       ELSE /\ UNCHANGED job
            /\ log' = Upd(log, r, Append2(log[r], <<"job_read", "start">>, <<"job_read", "notfound">>))
            /\ Return(r, KubernetesJobResult(0, job_name[r]))
    /\ UNCHANGED <<pureVars, otherPod, eventPods, podEvents, messages, jobEvents, logTarget, waited, cfg, defaultConfig, cluster, job_name, pod, last_phase,
                   elapsed, pending, createCalls, startedSignals, clients, streams>>

\* job = self._get_job(job_name); if not job: return ...
GetJob(r) ==
    /\ pc[r] = "monitor"
    /\ acquired' = Upd(acquired, r, acquired[r] + 1)
    /\ calls' = Upd(calls, r, calls[r] \cup {Call("read_job", job_name[r])})
    /\ configUsed' = Upd(configUsed, r, configUsed[r] \cup {defaultConfig})
    /\ IF cluster.jobExists
       THEN /\ job' = Upd(job, r, job_name[r])
            /\ log' = Upd(log, r, Append2(log[r], <<"job_read", "start">>, <<"job_read", "ok">>))
            /\ Goto(r, "have_job")
       ELSE /\ UNCHANGED job
            /\ log' = Upd(log, r, Append2(log[r], <<"job_read", "start">>, <<"job_read", "notfound">>))
            /\ Return(r, KubernetesJobResult(Sentinel, job_name[r]))
    /\ UNCHANGED <<pureVars, otherPod, eventPods, podEvents, messages, jobEvents, logTarget, waited, cfg, defaultConfig, cluster, job_name, pod, last_phase,
                   elapsed, pending, createCalls, startedSignals, clients, streams>>

\* The pods with the label of the job, as a list call returns them.
Listed ==
    (IF cluster.podExists THEN <<PodName>> ELSE <<>>)
        \o (IF otherPod.exists THEN <<OtherPodName>> ELSE <<>>)

\* _get_job_pod: open the pod watch.  The initial list queues an event for
\* every pod of the job there is.
OpenPodWatch(r) ==
    /\ pc[r] = "have_job"
    /\ acquired' = Upd(acquired, r, acquired[r] + 1)
    /\ calls' = Upd(calls, r, calls[r] \cup {Call("list_pod", job_name[r])})
    /\ configUsed' = Upd(configUsed, r, configUsed[r] \cup {defaultConfig})
    /\ clients' = Upd(clients, r, clients[r] \cup {"core"})
    /\ streams' = Upd(streams, r, streams[r] \cup {"pod_watch"})
    /\ last_phase' = Upd(last_phase, r, None)
    /\ elapsed' = Upd(elapsed, r, 0)
    /\ eventPods' = Upd(eventPods, r, Listed)
    /\ pending' = Upd(pending, r, Listed # <<>>)
    /\ log' = Upd(log, r, Append(log[r], <<"pod_watch", "start">>))
    /\ Goto(r, "pod_watch")
    /\ UNCHANGED <<pureVars, otherPod, podEvents, messages, jobEvents, logTarget, waited, cfg, defaultConfig, cluster, job_name, job, pod,
                   createCalls, startedSignals>>

\* PodWatchEvent that returns the pod of the first event, whatever its phase.
PodWatchEventTakesAny(r) ==
    /\ pc[r] = "pod_watch"
    /\ pending[r]
    /\ elapsed[r] < cfg[r].pod_watch_timeout_seconds
    /\ LET phase == ThePod(Head(eventPods[r])).phase IN
       IF TRUE
       THEN /\ pod' = Upd(pod, r, Head(eventPods[r]))
            /\ clients' = Upd(clients, r, clients[r] \ {"core"})
            /\ streams' = Upd(streams, r, streams[r] \ {"pod_watch"})
            /\ log' = Upd(log, r, Append(log[r], <<"pod_watch", "ok">>))
            /\ Goto(r, "pod_returned")
            /\ eventPods' = Upd(eventPods, r, <<>>)
            /\ UNCHANGED last_phase
       ELSE /\ last_phase' = Upd(last_phase, r, phase)
            /\ Goto(r, "pod_watch")
            /\ eventPods' = Upd(eventPods, r, Tail(eventPods[r]))
            /\ UNCHANGED <<pod, clients, streams, log>>
    /\ podEvents' = Upd(podEvents, r, Append(podEvents[r], [pod |-> Head(eventPods[r]), phase |-> ThePod(Head(eventPods[r])).phase]))
    /\ messages' = Upd(messages, r, IF ThePod(Head(eventPods[r])).phase # last_phase[r]
                                     THEN Append(messages[r], ThePod(Head(eventPods[r])).phase)
                                     ELSE messages[r])
    /\ pending' = Upd(pending, r, eventPods'[r] # <<>>)
    /\ UNCHANGED <<pureVars, otherPod, jobEvents, logTarget, waited, acquired, calls, configUsed, cfg, defaultConfig, cluster, job_name, job, elapsed,
                   createCalls, startedSignals>>

\* PodWatchEvent that logs the phase of every event.
PodWatchEventLogsAll(r) ==
    /\ pc[r] = "pod_watch"
    /\ pending[r]
    /\ elapsed[r] < cfg[r].pod_watch_timeout_seconds
    /\ LET phase == ThePod(Head(eventPods[r])).phase IN
       IF phase # "Pending"
       THEN /\ pod' = Upd(pod, r, Head(eventPods[r]))
            /\ clients' = Upd(clients, r, clients[r] \ {"core"})
            /\ streams' = Upd(streams, r, streams[r] \ {"pod_watch"})
            /\ log' = Upd(log, r, Append(log[r], <<"pod_watch", "ok">>))
            /\ Goto(r, "pod_returned")
            /\ eventPods' = Upd(eventPods, r, <<>>)
            /\ UNCHANGED last_phase
       ELSE /\ last_phase' = Upd(last_phase, r, phase)
            /\ Goto(r, "pod_watch")
            /\ eventPods' = Upd(eventPods, r, Tail(eventPods[r]))
            /\ UNCHANGED <<pod, clients, streams, log>>
    /\ podEvents' = Upd(podEvents, r, Append(podEvents[r], [pod |-> Head(eventPods[r]), phase |-> ThePod(Head(eventPods[r])).phase]))
    /\ messages' = Upd(messages, r, Append(messages[r], ThePod(Head(eventPods[r])).phase))
    /\ pending' = Upd(pending, r, eventPods'[r] # <<>>)
    /\ UNCHANGED <<pureVars, otherPod, jobEvents, logTarget, waited, acquired, calls, configUsed, cfg, defaultConfig, cluster, job_name, job, elapsed,
                   createCalls, startedSignals>>

\* _get_job_pod: one iteration of the loop over watch.stream(...).
PodWatchEvent(r) ==
    /\ pc[r] = "pod_watch"
    /\ pending[r]
    /\ elapsed[r] < cfg[r].pod_watch_timeout_seconds
    /\ LET phase == ThePod(Head(eventPods[r])).phase IN
       IF phase # "Pending"
       THEN /\ pod' = Upd(pod, r, Head(eventPods[r]))
            /\ clients' = Upd(clients, r, clients[r] \ {"core"})
            /\ streams' = Upd(streams, r, streams[r] \ {"pod_watch"})
            /\ log' = Upd(log, r, Append(log[r], <<"pod_watch", "ok">>))
            /\ Goto(r, "pod_returned")
            /\ eventPods' = Upd(eventPods, r, <<>>)
            /\ UNCHANGED last_phase
       ELSE /\ last_phase' = Upd(last_phase, r, phase)
            /\ Goto(r, "pod_watch")
            /\ eventPods' = Upd(eventPods, r, Tail(eventPods[r]))
            /\ UNCHANGED <<pod, clients, streams, log>>
    /\ podEvents' = Upd(podEvents, r, Append(podEvents[r], [pod |-> Head(eventPods[r]), phase |-> ThePod(Head(eventPods[r])).phase]))
    /\ messages' = Upd(messages, r, IF ThePod(Head(eventPods[r])).phase # last_phase[r]
                                     THEN Append(messages[r], ThePod(Head(eventPods[r])).phase)
                                     ELSE messages[r])
    /\ pending' = Upd(pending, r, eventPods'[r] # <<>>)
    /\ UNCHANGED <<pureVars, otherPod, jobEvents, logTarget, waited, acquired, calls, configUsed, cfg, defaultConfig, cluster, job_name, job, elapsed,
                   createCalls, startedSignals>>

\* PodWatchTimeout that opens the watch again.
PodWatchTimeoutRetries(r) ==
    /\ pc[r] = "pod_watch"
    /\ elapsed[r] = cfg[r].pod_watch_timeout_seconds
    /\ pod' = Upd(pod, r, None)
    /\ pending' = Upd(pending, r, FALSE)
    /\ eventPods' = Upd(eventPods, r, <<>>)
    /\ clients' = Upd(clients, r, clients[r] \ {"core"})
    /\ streams' = Upd(streams, r, streams[r] \ {"pod_watch"})
    /\ log' = Upd(log, r, Append(log[r], <<"pod_watch", "timeout">>))
    /\ Goto(r, "have_job")
    /\ UNCHANGED <<pureVars, otherPod, histVars, cfg, defaultConfig, cluster, job_name, job, last_phase,
                   elapsed, createCalls, startedSignals>>

\* _get_job_pod: the stream ended at timeout_seconds; "Pod never started.",
\* and the function returns None.
PodWatchTimeout(r) ==
    /\ pc[r] = "pod_watch"
    /\ elapsed[r] = cfg[r].pod_watch_timeout_seconds
    /\ pod' = Upd(pod, r, None)
    /\ pending' = Upd(pending, r, FALSE)
    /\ eventPods' = Upd(eventPods, r, <<>>)
    /\ clients' = Upd(clients, r, clients[r] \ {"core"})
    /\ streams' = Upd(streams, r, streams[r] \ {"pod_watch"})
    /\ log' = Upd(log, r, Append(log[r], <<"pod_watch", "timeout">>))
    /\ Goto(r, "pod_returned")
    /\ UNCHANGED <<pureVars, otherPod, histVars, cfg, defaultConfig, cluster, job_name, job, last_phase,
                   elapsed, createCalls, startedSignals>>

\* PodNeverStarted without the early return: the pipeline goes on.
PodNeverStartedGoesOn(r) ==
    /\ pc[r] = "pod_returned"
    /\ pod[r] = None
    /\ Goto(r, "logs_done")
    /\ UNCHANGED <<pureVars, otherPod, eventPods, histVars, cfg, defaultConfig, cluster, job_name, job, pod, last_phase,
                   elapsed, pending, createCalls, startedSignals, clients, streams, log>>

\* if not pod: return KubernetesJobResult(status_code=-1, ...)
PodNeverStarted(r) ==
    /\ pc[r] = "pod_returned"
    /\ pod[r] = None
    /\ Return(r, DegradedResult(r))
    /\ UNCHANGED <<pureVars, otherPod, eventPods, histVars, cfg, defaultConfig, cluster, job_name, job, pod, last_phase,
                   elapsed, pending, createCalls, startedSignals, clients, streams, log>>

\* OpenLogStream that leaves the stream to be read in the background.
OpenLogStreamInBackground(r) ==
    /\ pc[r] = "pod_returned"
    /\ pod[r] # None
    /\ cfg[r].stream_output
    /\ logTarget' = Upd(logTarget, r, pod[r])
    /\ acquired' = Upd(acquired, r, acquired[r] + 1)
    /\ calls' = Upd(calls, r, calls[r] \cup {Call("read_log", pod[r])})
    /\ configUsed' = Upd(configUsed, r, configUsed[r] \cup {defaultConfig})
    /\ log' = Upd(log, r, Append(log[r], <<"log_stream", "start">>))
    /\ clients' = Upd(clients, r, clients[r] \cup {"core"})
    /\ streams' = Upd(streams, r, streams[r] \cup {"log_stream"})
    /\ Goto(r, "logs_done")
    /\ UNCHANGED <<pureVars, otherPod, eventPods, podEvents, messages, jobEvents, waited, cfg, defaultConfig, cluster, job_name, job, pod, last_phase,
                   elapsed, pending, createCalls, startedSignals>>

\* OpenLogStream without the test of stream_output.
OpenLogStreamAlways(r) ==
    /\ pc[r] = "pod_returned"
    /\ pod[r] # None
    /\ logTarget' = Upd(logTarget, r, pod[r])
    /\ acquired' = Upd(acquired, r, acquired[r] + 1)
    /\ calls' = Upd(calls, r, calls[r] \cup {Call("read_log", pod[r])})
    /\ configUsed' = Upd(configUsed, r, configUsed[r] \cup {defaultConfig})
    /\ IF ~ThePod(pod[r]).exists
       THEN /\ log' = Upd(log, r, Append2(log[r], <<"log_stream", "start">>, <<"log_stream", "notfound">>))
            /\ Raise(r)
            /\ UNCHANGED <<clients, streams>>
       ELSE IF cfg[r].fault = "log_open"
       THEN /\ log' = Upd(log, r, Append2(log[r], <<"log_stream", "start">>, <<"log_stream", "error">>))
            /\ Raise(r)
            /\ UNCHANGED <<clients, streams>>
       ELSE /\ log' = Upd(log, r, Append(log[r], <<"log_stream", "start">>))
            /\ clients' = Upd(clients, r, clients[r] \cup {"core"})
            /\ streams' = Upd(streams, r, streams[r] \cup {"log_stream"})
            /\ Goto(r, "log_stream")
    /\ UNCHANGED <<pureVars, otherPod, eventPods, podEvents, messages, jobEvents, waited, cfg, defaultConfig, cluster, job_name, job, pod, last_phase,
                   elapsed, pending, createCalls, startedSignals>>

\* if self.stream_output: read_namespaced_pod_log(pod.metadata.name, ..., follow=True)
OpenLogStream(r) ==
    /\ pc[r] = "pod_returned"
    /\ pod[r] # None
    /\ cfg[r].stream_output
    /\ logTarget' = Upd(logTarget, r, pod[r])
    /\ acquired' = Upd(acquired, r, acquired[r] + 1)
    /\ calls' = Upd(calls, r, calls[r] \cup {Call("read_log", pod[r])})
    /\ configUsed' = Upd(configUsed, r, configUsed[r] \cup {defaultConfig})
    /\ IF ~ThePod(pod[r]).exists
       THEN /\ log' = Upd(log, r, Append2(log[r], <<"log_stream", "start">>, <<"log_stream", "notfound">>))
            /\ Raise(r)
            /\ UNCHANGED <<clients, streams>>
       ELSE IF cfg[r].fault = "log_open"
       THEN /\ log' = Upd(log, r, Append2(log[r], <<"log_stream", "start">>, <<"log_stream", "error">>))
            /\ Raise(r)
            /\ UNCHANGED <<clients, streams>>
       ELSE /\ log' = Upd(log, r, Append(log[r], <<"log_stream", "start">>))
            /\ clients' = Upd(clients, r, clients[r] \cup {"core"})
            /\ streams' = Upd(streams, r, streams[r] \cup {"log_stream"})
            /\ Goto(r, "log_stream")
    /\ UNCHANGED <<pureVars, otherPod, eventPods, podEvents, messages, jobEvents, waited, cfg, defaultConfig, cluster, job_name, job, pod, last_phase,
                   elapsed, pending, createCalls, startedSignals>>

\* stream_output is not set: straight to the completion watch.
SkipLogStream(r) ==
    /\ pc[r] = "pod_returned"
    /\ pod[r] # None
    /\ ~cfg[r].stream_output
    /\ Goto(r, "logs_done")
    /\ UNCHANGED <<pureVars, otherPod, eventPods, histVars, cfg, defaultConfig, cluster, job_name, job, pod, last_phase,
                   elapsed, pending, createCalls, startedSignals, clients, streams, log>>

\* LogStreamEnd that goes on with the client of the log stream.
LogStreamEndKeepsClient(r) ==
    /\ pc[r] = "log_stream"
    /\ ThePod(pod[r]).exists
    /\ ThePod(pod[r]).terminated # {}
    /\ clients' = clients
    /\ streams' = Upd(streams, r, streams[r] \ {"log_stream"})
    /\ log' = Upd(log, r, Append(log[r], <<"log_stream", "ok">>))
    /\ Goto(r, "logs_done")
    /\ UNCHANGED <<pureVars, otherPod, eventPods, histVars, cfg, defaultConfig, cluster, job_name, job, pod, last_phase,
                   elapsed, pending, createCalls, startedSignals>>

\* The container has exited and closed its output: logs.stream() is exhausted.
LogStreamEnd(r) ==
    /\ pc[r] = "log_stream"
    /\ ThePod(pod[r]).exists
    /\ ThePod(pod[r]).terminated # {}
    /\ clients' = Upd(clients, r, clients[r] \ {"core"})
    /\ streams' = Upd(streams, r, streams[r] \ {"log_stream"})
    /\ log' = Upd(log, r, Append(log[r], <<"log_stream", "ok">>))
    /\ Goto(r, "logs_done")
    /\ UNCHANGED <<pureVars, otherPod, eventPods, histVars, cfg, defaultConfig, cluster, job_name, job, pod, last_phase,
                   elapsed, pending, createCalls, startedSignals>>

\* LogStreamDrop outside a with-block: an exception leaves the client and
\* the stream open.
LogStreamDropLeaks(r) ==
    /\ pc[r] = "log_stream"
    /\ cfg[r].fault = "log_drop" \/ ~ThePod(pod[r]).exists
    /\ \/ /\ log' = Upd(log, r, Append(log[r], <<"log_stream", "error">>))
          /\ Raise(r)
          /\ UNCHANGED <<clients, streams>>
       \/ /\ log' = Upd(log, r, Append(log[r], <<"log_stream", "dropped">>))
          /\ clients' = Upd(clients, r, clients[r] \ {"core"})
          /\ streams' = Upd(streams, r, streams[r] \ {"log_stream"})
          /\ Goto(r, "logs_done")
    /\ UNCHANGED <<pureVars, otherPod, eventPods, histVars, cfg, defaultConfig, cluster, job_name, job, pod, last_phase,
                   elapsed, pending, createCalls, startedSignals>>

\* The connection drops while lines are read (the fault, or the pod is
\* deleted under the stream): the iterator either raises or just ends,
\* depending on how the connection was closed.
LogStreamDrop(r) ==
    /\ pc[r] = "log_stream"
    /\ cfg[r].fault = "log_drop" \/ ~ThePod(pod[r]).exists
    /\ clients' = Upd(clients, r, clients[r] \ {"core"})
    /\ streams' = Upd(streams, r, streams[r] \ {"log_stream"})
    /\ \/ /\ log' = Upd(log, r, Append(log[r], <<"log_stream", "error">>))
          /\ Raise(r)
       \/ /\ log' = Upd(log, r, Append(log[r], <<"log_stream", "dropped">>))
          /\ Goto(r, "logs_done")
    /\ UNCHANGED <<pureVars, otherPod, eventPods, histVars, cfg, defaultConfig, cluster, job_name, job, pod, last_phase,
                   elapsed, pending, createCalls, startedSignals>>

\* OpenJobWatch on what the pod watch left of one budget for both watches.
OpenJobWatchSharedBudget(r) ==
    /\ pc[r] = "logs_done"
    /\ acquired' = Upd(acquired, r, acquired[r] + 1)
    /\ calls' = Upd(calls, r, calls[r] \cup {Call("list_job", job_name[r])})
    /\ configUsed' = Upd(configUsed, r, configUsed[r] \cup {defaultConfig})
    /\ clients' = Upd(clients, r, clients[r] \cup {"batch"})
    /\ streams' = Upd(streams, r, streams[r] \cup {"job_watch"})
    /\ elapsed' = elapsed
    /\ pending' = Upd(pending, r, cluster.jobExists)
    /\ log' = Upd(log, r, Append(log[r], <<"job_watch", "start">>))
    /\ Goto(r, "job_watch")
    /\ UNCHANGED <<pureVars, otherPod, eventPods, podEvents, messages, jobEvents, logTarget, waited, cfg, defaultConfig, cluster, job_name, job, pod, last_phase,
                   createCalls, startedSignals>>

\* Open the watch for job completion.  The initial list queues an event for
\* the job when it still exists.
OpenJobWatch(r) ==
    /\ pc[r] = "logs_done"
    /\ acquired' = Upd(acquired, r, acquired[r] + 1)
    /\ calls' = Upd(calls, r, calls[r] \cup {Call("list_job", job_name[r])})
    /\ configUsed' = Upd(configUsed, r, configUsed[r] \cup {defaultConfig})
    /\ clients' = Upd(clients, r, clients[r] \cup {"batch"})
    /\ streams' = Upd(streams, r, streams[r] \cup {"job_watch"})
    /\ elapsed' = Upd(elapsed, r, 0)
    /\ pending' = Upd(pending, r, cluster.jobExists)
    /\ log' = Upd(log, r, Append(log[r], <<"job_watch", "start">>))
    /\ Goto(r, "job_watch")
    /\ UNCHANGED <<pureVars, otherPod, eventPods, podEvents, messages, jobEvents, logTarget, waited, cfg, defaultConfig, cluster, job_name, job, pod, last_phase,
                   createCalls, startedSignals>>

\* JobWatchEvent that stops the watch at the first event, completed or not.
JobWatchEventTakesAny(r) ==
    /\ pc[r] = "job_watch"
    /\ pending[r]
    /\ elapsed[r] < cfg[r].job_watch_timeout_seconds
    /\ IF TRUE
       THEN /\ clients' = Upd(clients, r, clients[r] \ {"batch"})
            /\ streams' = Upd(streams, r, streams[r] \ {"job_watch"})
            /\ log' = Upd(log, r, Append(log[r], <<"job_watch", "ok">>))
            /\ Goto(r, "completed")
       ELSE /\ Goto(r, "job_watch")
            /\ UNCHANGED <<clients, streams, log>>
    /\ jobEvents' = Upd(jobEvents, r, Append(jobEvents[r], [completion_time |-> cluster.jobComplete]))
    /\ pending' = Upd(pending, r, FALSE)
    /\ UNCHANGED <<pureVars, otherPod, eventPods, podEvents, messages, logTarget, waited, acquired, calls, configUsed, cfg, defaultConfig, cluster, job_name, job, pod, last_phase,
                   elapsed, createCalls, startedSignals>>

\* One iteration of the loop over the job watch: any event whose object
\* has a completion_time stops the watch.
JobWatchEvent(r) ==
    /\ pc[r] = "job_watch"
    /\ pending[r]
    /\ elapsed[r] < cfg[r].job_watch_timeout_seconds
    /\ IF cluster.jobComplete
       THEN /\ clients' = Upd(clients, r, clients[r] \ {"batch"})
            /\ streams' = Upd(streams, r, streams[r] \ {"job_watch"})
            /\ log' = Upd(log, r, Append(log[r], <<"job_watch", "ok">>))
            /\ Goto(r, "completed")
       ELSE /\ Goto(r, "job_watch")
            /\ UNCHANGED <<clients, streams, log>>
    /\ jobEvents' = Upd(jobEvents, r, Append(jobEvents[r], [completion_time |-> cluster.jobComplete]))
    /\ pending' = Upd(pending, r, FALSE)
    /\ UNCHANGED <<pureVars, otherPod, eventPods, podEvents, messages, logTarget, waited, acquired, calls, configUsed, cfg, defaultConfig, cluster, job_name, job, pod, last_phase,
                   elapsed, createCalls, startedSignals>>

\* JobWatchTimeout without the else branch: falls through to the status read.
JobWatchTimeoutFallsThrough(r) ==
    /\ pc[r] = "job_watch"
    /\ elapsed[r] = cfg[r].job_watch_timeout_seconds
    /\ pending' = Upd(pending, r, FALSE)
    /\ clients' = Upd(clients, r, clients[r] \ {"batch"})
    /\ streams' = Upd(streams, r, streams[r] \ {"job_watch"})
    /\ log' = Upd(log, r, Append(log[r], <<"job_watch", "timeout">>))
    /\ Goto(r, "completed")
    /\ UNCHANGED <<pureVars, otherPod, eventPods, histVars, cfg, defaultConfig, cluster, job_name, job, pod, last_phase,
                   elapsed, createCalls, startedSignals>>

\* The for loop's else branch: the stream ended without a completion_time.
JobWatchTimeout(r) ==
    /\ pc[r] = "job_watch"
    /\ elapsed[r] = cfg[r].job_watch_timeout_seconds
    /\ pending' = Upd(pending, r, FALSE)
    /\ clients' = Upd(clients, r, clients[r] \ {"batch"})
    /\ streams' = Upd(streams, r, streams[r] \ {"job_watch"})
    /\ log' = Upd(log, r, Append(log[r], <<"job_watch", "timeout">>))
    /\ Return(r, DegradedResult(r))
    /\ UNCHANGED <<pureVars, otherPod, eventPods, histVars, cfg, defaultConfig, cluster, job_name, job, pod, last_phase,
                   elapsed, createCalls, startedSignals>>

\* ReadPodStatus that reports the pod's phase (0 for Succeeded, 1 otherwise)
\* instead of the container's exit code.
ReadPodStatusByPhase(r) ==
    /\ pc[r] = "completed"
    /\ acquired' = Upd(acquired, r, acquired[r] + 1)
    /\ calls' = Upd(calls, r, calls[r] \cup {Call("read_status", pod[r])})
    /\ configUsed' = Upd(configUsed, r, configUsed[r] \cup {defaultConfig})
    /\ IF ~ThePod(pod[r]).exists
       THEN /\ log' = Upd(log, r, Append2(log[r], <<"extract", "start">>, <<"extract", "notfound">>))
            /\ Raise(r)
       ELSE IF ThePod(pod[r]).terminated = {}
       THEN /\ log' = Upd(log, r, Append2(log[r], <<"extract", "start">>, <<"extract", "error">>))
            /\ Raise(r)
       ELSE /\ log' = Upd(log, r, Append2(log[r], <<"extract", "start">>, <<"extract", "ok">>))
            /\ Return(r, KubernetesJobResult(IF ThePod(pod[r]).phase = "Succeeded" THEN 0 ELSE 1, job[r]))
    /\ UNCHANGED <<pureVars, otherPod, eventPods, podEvents, messages, jobEvents, logTarget, waited, cfg, defaultConfig, cluster, job_name, job, pod, last_phase,
                   elapsed, pending, createCalls, startedSignals, clients, streams>>

\* ReadPodStatus that reads the status of the newest pod of the job.
ReadPodStatusOfNewestPod(r) ==
    /\ pc[r] = "completed"
    /\ acquired' = Upd(acquired, r, acquired[r] + 1)
    /\ calls' = Upd(calls, r, calls[r] \cup {Call("read_status", pod[r])})
    /\ configUsed' = Upd(configUsed, r, configUsed[r] \cup {defaultConfig})
    /\ IF ~ThePod(IF otherPod.exists THEN OtherPodName ELSE pod[r]).exists
       THEN /\ log' = Upd(log, r, Append2(log[r], <<"extract", "start">>, <<"extract", "notfound">>))
            /\ Raise(r)
       ELSE IF ThePod(IF otherPod.exists THEN OtherPodName ELSE pod[r]).terminated = {}
       THEN /\ log' = Upd(log, r, Append2(log[r], <<"extract", "start">>, <<"extract", "error">>))
            /\ Raise(r)
       ELSE /\ log' = Upd(log, r, Append2(log[r], <<"extract", "start">>, <<"extract", "ok">>))
            /\ \E c \in ThePod(IF otherPod.exists THEN OtherPodName ELSE pod[r]).terminated :
                   Return(r, KubernetesJobResult(c, job[r]))
    /\ UNCHANGED <<pureVars, otherPod, eventPods, podEvents, messages, jobEvents, logTarget, waited, cfg, defaultConfig, cluster, job_name, job, pod, last_phase,
                   elapsed, pending, createCalls, startedSignals, clients, streams>>

\* read_namespaced_pod_status(...).status.container_statuses[0].state.terminated.exit_code
ReadPodStatus(r) ==
    /\ pc[r] = "completed"
    /\ acquired' = Upd(acquired, r, acquired[r] + 1)
    /\ calls' = Upd(calls, r, calls[r] \cup {Call("read_status", pod[r])})
    /\ configUsed' = Upd(configUsed, r, configUsed[r] \cup {defaultConfig})
    /\ IF ~ThePod(pod[r]).exists
       THEN /\ log' = Upd(log, r, Append2(log[r], <<"extract", "start">>, <<"extract", "notfound">>))
            /\ Raise(r)
       ELSE IF ThePod(pod[r]).terminated = {}
       THEN /\ log' = Upd(log, r, Append2(log[r], <<"extract", "start">>, <<"extract", "error">>))
            /\ Raise(r)
       ELSE /\ log' = Upd(log, r, Append2(log[r], <<"extract", "start">>, <<"extract", "ok">>))
            /\ \E c \in ThePod(pod[r]).terminated :
                   Return(r, KubernetesJobResult(c, job[r]))
    /\ UNCHANGED <<pureVars, otherPod, eventPods, podEvents, messages, jobEvents, logTarget, waited, cfg, defaultConfig, cluster, job_name, job, pod, last_phase,
                   elapsed, pending, createCalls, startedSignals, clients, streams>>

----------------------------------------------------------------------------
(* Time and the cluster *)

\* The invocation is blocked: it waits for its worker thread, for the next
\* watch event, for the next log line, or it is over.
CanWait(r) ==
    \/ pc[r] \in {"idle", "done", "monitor"}
    \/ pc[r] = "pod_watch" /\ ~pending[r] /\ elapsed[r] < cfg[r].pod_watch_timeout_seconds
    \/ pc[r] = "log_stream" /\ ThePod(pod[r]).exists /\ ThePod(pod[r]).terminated = {}
    \/ pc[r] = "job_watch" /\ ~pending[r] /\ elapsed[r] < cfg[r].job_watch_timeout_seconds

\* The watch of the pod gets an event for every change of the pod object,
\* its deletion included (the event carries the object's last state).
PodEvent(c, c2, touched) ==
    c.podExists /\ (c2.podPhase # c.podPhase \/ c2.terminated # c.terminated
                    \/ ~c2.podExists \/ touched)

JobEvent(c, c2, touched) ==
    c.jobExists /\ (c2.jobComplete # c.jobComplete \/ ~c2.jobExists \/ touched)

Tick ==
    /\ \A r \in Runs : CanWait(r)
    /\ \E r \in Runs : pc[r] \notin {"idle", "done"}
    /\ \E c2 \in ClusterNext(cluster), v2 \in OtherPodNext(otherPod), touched \in BOOLEAN :
        /\ cluster' = c2
        /\ otherPod' = v2
        /\ LET events == (IF PodEvent(cluster, c2, touched) THEN <<PodName>> ELSE <<>>)
                              \o (IF otherPod.exists /\ v2 # otherPod
                                  THEN <<OtherPodName>> ELSE <<>>)
           IN  /\ eventPods' = [r \in Runs |->
                                   IF pc[r] = "pod_watch" THEN events ELSE eventPods[r]]
               /\ pending' = [r \in Runs |->
                                 IF pc[r] = "pod_watch" THEN events # <<>>
                                 ELSE IF pc[r] = "job_watch" THEN JobEvent(cluster, c2, touched)
                                 ELSE pending[r]]
    /\ elapsed' = [r \in Runs |->
                     IF pc[r] \in {"pod_watch", "job_watch"} THEN elapsed[r] + 1
                     ELSE elapsed[r]]
    /\ waited' = [r \in Runs |->
                    IF pc[r] \in WaitStages /\ waited[r][pc[r]] < MaxTimeout
                    THEN [waited[r] EXCEPT ![pc[r]] = @ + 1]
                    ELSE waited[r]]
    /\ UNCHANGED <<pureVars, podEvents, messages, jobEvents, logTarget, acquired, calls, configUsed, cfg, pc, defaultConfig, job_name, job, pod, last_phase,
                   createCalls, startedSignals, clients, streams, log, outcome, result>>

\* The job controller starts a second pod of the job; an open pod watch gets
\* the event of its creation.
StartOtherPod ==
    /\ cluster.jobExists
    /\ ~otherPod.started
    /\ \A r \in Runs : CanWait(r)
    /\ \E r \in Runs : pc[r] \notin {"idle", "done"}
    /\ otherPod' = [exists |-> TRUE, phase |-> "Pending", terminated |-> {}, started |-> TRUE]
    /\ eventPods' = [r \in Runs |->
                        IF pc[r] = "pod_watch" THEN <<OtherPodName>> ELSE eventPods[r]]
    /\ pending' = [r \in Runs |-> IF pc[r] = "pod_watch" THEN TRUE ELSE pending[r]]
    /\ UNCHANGED <<pureVars, histVars, cfg, pc, defaultConfig, cluster, job_name, job, pod,
                   last_phase, elapsed, createCalls, startedSignals, clients, streams, log,
                   outcome, result>>

----------------------------------------------------------------------------
\* JSON documents and JSON patches.
\*
\* A document is a function from paths to nodes.  A path is the sequence of
\* the keys that lead from the root to the node, the index of a list entry
\* being written as a string ("0", "1", ...) as in a JSON pointer.  A node
\* tells whether the value there is a mapping, a list or a string, and which
\* string.

IdxStr == <<"0", "1", "2", "3", "4", "5", "6", "7", "8", "9", "10", "11", "12", "13", "14", "15">>

IsIdx(k) == \E n \in 1..Len(IdxStr) : IdxStr[n] = k

IdxNum(k) == CHOOSE n \in 0..(Len(IdxStr) - 1) : IdxStr[n + 1] = k

Map == [t |-> "map", v |-> ""]

List == [t |-> "list", v |-> ""]

S(x) == [t |-> "str", v |-> x]

NoDoc == <<>>

DocOf(pairs) == [p \in {x[1] : x \in pairs} |-> (CHOOSE x \in pairs : x[1] = p)[2]]

IsPrefix(p, q) == Len(p) <= Len(q) /\ SubSeq(q, 1, Len(p)) = p

Front(p) == SubSeq(p, 1, Len(p) - 1)

Last(p) == p[Len(p)]

\* The value at path p, as a document of its own.
Sub(d, p) ==
    DocOf({<<SubSeq(x, Len(p) + 1, Len(x)), d[x]>> : x \in {y \in DOMAIN d : IsPrefix(p, y)}})

\* The document without the value at p.
Prune(d, p) == [x \in {y \in DOMAIN d : ~IsPrefix(p, y)} |-> d[x]]

\* The document with the value at p set to sub.
Graft(d, p, sub) ==
    LET keep == {y \in DOMAIN d : ~IsPrefix(p, y)}
    IN  DocOf({<<x, d[x]>> : x \in keep} \cup {<<p \o q, sub[q]>> : q \in DOMAIN sub})

Kids(d, p) == {x[Len(p) + 1] : x \in {y \in DOMAIN d : Len(y) = Len(p) + 1 /\ IsPrefix(p, y)}}

ListLen(d, p) == Cardinality(Kids(d, p))

\* The entries of the list at p from index from on move by delta places.
Shift(d, p, from, delta) ==
    LET moves(y) == /\ Len(y) > Len(p)
                    /\ IsPrefix(p, y)
                    /\ IdxNum(y[Len(p) + 1]) >= from
        Re(y) == IF moves(y)
                 THEN [y EXCEPT ![Len(p) + 1] = IdxStr[IdxNum(@) + delta + 1]]
                 ELSE y
    IN  DocOf({<<Re(y), d[y]>> : y \in DOMAIN d})

\* The characters "~" and "/" of a key are written "~0" and "~1" in a JSON
\* pointer (RFC 6901).  The keys of this model that hold one of them:
EscapeToken(k) ==
    CASE k = "a/b" -> "a~1b"
      [] k = "a~b" -> "a~0b"
      [] OTHER -> k

UnescapeToken(t) ==
    CASE t = "a~1b" -> "a/b"
      [] t = "a~0b" -> "a~b"
      [] OTHER -> t

\* A "~" that neither "0" nor "1" follows is no escape: a pointer with such
\* a token is rejected.  The tokens of this model that hold one:
ValidToken(t) == t # "a~b"

Ptr(p) == [i \in 1..Len(p) |-> EscapeToken(p[i])]

Keys(ptr) == [i \in 1..Len(ptr) |-> UnescapeToken(ptr[i])]

Op(o, ptr, value) == [op |-> o, path |-> ptr, value |-> value]

Failed == [ok |-> FALSE, doc |-> NoDoc]

Done(d) == [ok |-> TRUE, doc |-> d]

\* One operation of a JSON patch (RFC 6902) applied to a document.
ApplyOp(o, d) ==
    LET p == Keys(o.path)
        parent == Front(p)
        key == Last(p)
    IN  IF \E i \in 1..Len(o.path) : ~ValidToken(o.path[i])
        THEN Failed
        ELSE IF p = <<>>
        THEN IF o.op = "remove" THEN Failed ELSE Done(o.value)
        ELSE IF parent \notin DOMAIN d
        THEN Failed
        ELSE IF o.op = "add"
        THEN CASE d[parent].t = "map" -> Done(Graft(d, p, o.value))
               [] d[parent].t = "list" /\ o.path[Len(p)] = "-" ->
                      Done(Graft(d, parent \o <<IdxStr[ListLen(d, parent) + 1]>>, o.value))
               [] d[parent].t = "list" /\ IsIdx(key) /\ IdxNum(key) <= ListLen(d, parent) ->
                      Done(Graft(Shift(d, parent, IdxNum(key), 1), p, o.value))
               [] OTHER -> Failed
        ELSE IF p \notin DOMAIN d
        THEN Failed
        ELSE IF o.op = "replace"
        THEN Done(Graft(d, p, o.value))
        ELSE IF d[parent].t = "list"
        THEN Done(Shift(Prune(d, p), parent, IdxNum(key) + 1, -1))
        ELSE Done(Prune(d, p))

\* JsonPatch.apply: the operations in order; the first that fails fails the
\* whole patch.
RECURSIVE Apply(_, _)
Apply(patch, d) ==
    IF patch = <<>>
    THEN Done(d)
    ELSE LET first == ApplyOp(Head(patch), d)
         IN  IF first.ok THEN Apply(Tail(patch), first.doc) ELSE Failed

RECURSIVE SeqOf(_)
SeqOf(set) ==
    IF set = {}
    THEN <<>>
    ELSE LET x == CHOOSE y \in set : TRUE
         IN  <<x>> \o SeqOf(set \ {x})

RECURSIVE Flat(_)
Flat(seqs) == IF seqs = <<>> THEN <<>> ELSE Head(seqs) \o Flat(Tail(seqs))

\* JsonPatch.from_diff: the operations that turn src into dst.  A member only
\* src has is removed, a member only dst has is added with its whole value,
\* two mappings or two lists are compared member by member, and any other two
\* values that differ are a replacement.
RECURSIVE DiffAt(_, _, _)
DiffAt(src, dst, p) ==
    IF src[p].t = "map" /\ dst[p].t = "map"
    THEN LET ks == SeqOf(Kids(src, p) \cup Kids(dst, p))
             One(k) == IF k \notin Kids(dst, p)
                       THEN <<Op("remove", Ptr(p \o <<k>>), NoDoc)>>
                       ELSE IF k \notin Kids(src, p)
                       THEN <<Op("add", Ptr(p \o <<k>>), Sub(dst, p \o <<k>>))>>
                       ELSE DiffAt(src, dst, p \o <<k>>)
         IN  Flat([i \in 1..Len(ks) |-> One(ks[i])])
    ELSE IF src[p].t = "list" /\ dst[p].t = "list"
    THEN LET n == ListLen(src, p)
             m == ListLen(dst, p)
             c == IF n < m THEN n ELSE m
             common == Flat([i \in 1..c |-> DiffAt(src, dst, p \o <<IdxStr[i]>>)])
             tail == IF n > m
                     THEN [i \in 1..(n - m) |-> Op("remove", Ptr(p \o <<IdxStr[m + 1]>>), NoDoc)]
                     ELSE [i \in 1..(m - n) |->
                              Op("add", Ptr(p \o <<IdxStr[n + i]>>), Sub(dst, p \o <<IdxStr[n + i]>>))]
         IN  common \o tail
    ELSE IF Sub(src, p) = Sub(dst, p)
    THEN <<>>
    ELSE <<Op("replace", Ptr(p), Sub(dst, p))>>

from_diff(src, dst) == DiffAt(src, dst, <<>>)

----------------------------------------------------------------------------
\* The manifest builder of KubernetesJob.

RECURSIVE Str(_)
Str(chars) == IF chars = <<>> THEN "" ELSE Head(chars) \o Str(Tail(chars))

Scalar(x) == DocOf({<<<<>>, S(x)>>})

EmptyMap == DocOf({<<<<>>, Map>>})

ListDoc(seq) == DocOf({<<<<>>, List>>} \cup {<<<<IdxStr[i]>>, S(seq[i])>> : i \in 1..Len(seq)})

EnvEntry(key, value) ==
    DocOf({<<<<>>, Map>>, <<<<"name">>, S(key)>>, <<<<"value">>, S(value)>>})

Container == <<"spec", "template", "spec", "containers", "0">>

base_job_manifest ==
    DocOf({
        <<<<>>, Map>>,
        <<<<"apiVersion">>, S("batch/v1")>>,
        <<<<"kind">>, S("Job")>>,
        <<<<"metadata">>, Map>>,
        <<<<"metadata", "labels">>, Map>>,
        <<<<"spec">>, Map>>,
        <<<<"spec", "template">>, Map>>,
        <<<<"spec", "template", "spec">>, Map>>,
        <<<<"spec", "template", "spec", "parallelism">>, S("1")>>,
        <<<<"spec", "template", "spec", "completions">>, S("1")>>,
        <<<<"spec", "template", "spec", "restartPolicy">>, S("Never")>>,
        <<<<"spec", "template", "spec", "containers">>, List>>,
        <<Container, Map>>,
        <<Container \o <<"name">>, S("prefect-job")>>,
        <<Container \o <<"env">>, List>>
    })

Range(seq) == {seq[i] : i \in 1..Len(seq)}

\* The paths the ValueError of ensure_job_includes_all_required_components names.
missing_paths(value) ==
    {o.path : o \in {x \in Range(from_diff(value, base_job_manifest)) : x.op = "add"}}

\* The paths the ValueError of ensure_job_has_compatible_values names.
incompatible(value) ==
    {o.path : o \in {x \in Range(from_diff(value, base_job_manifest)) : x.op = "replace"}}

NoError == [kind |-> "none", paths |-> {}]

\* The characters of this model that the regex_pattern [^a-zA-Z0-9-]+ matches.
Matched == {" ", "_", "!", ".", "/"}

\* str.lower() on the letters of this model.
Lower(c) ==
    CASE c = "J" -> "j"
      [] c = "M" -> "m"
      [] OTHER -> c

\* re.sub(pattern, "-", text): every run of matched characters becomes one dash.
RECURSIVE Collapse(_, _)
Collapse(chars, inRun) ==
    IF chars = <<>>
    THEN <<>>
    ELSE IF Head(chars) \notin Matched
    THEN <<Head(chars)>> \o Collapse(Tail(chars), FALSE)
    ELSE (IF inRun THEN <<>> ELSE <<"-">>) \o Collapse(Tail(chars), TRUE)

\* re.sub("-{2,}", "-", text)
RECURSIVE Dedup(_)
Dedup(chars) ==
    IF Len(chars) < 2
    THEN chars
    ELSE IF chars[1] = "-" /\ chars[2] = "-"
    THEN Dedup(Tail(chars))
    ELSE <<Head(chars)>> \o Dedup(Tail(chars))

\* text.strip("-")
RECURSIVE Strip(_)
Strip(chars) ==
    IF chars = <<>>
    THEN <<>>
    ELSE IF Head(chars) = "-"
    THEN Strip(Tail(chars))
    ELSE IF chars[Len(chars)] = "-"
    THEN Strip(SubSeq(chars, 1, Len(chars) - 1))
    ELSE chars

\* slugify(text, max_length, regex_pattern) of python-slugify on texts
\* without quotes, commas and character references: the text is lowered,
\* every run the pattern matches becomes a dash, repeated dashes become one,
\* the dashes at the ends go, and with a max_length other than 0 a slug of
\* max_length characters or more is cut at max_length and loses the dashes
\* at its ends again.
slugify(chars, max_length) ==
    LET lowered == [i \in 1..Len(chars) |-> Lower(chars[i])]
        slug0 == Strip(Dedup(Collapse(lowered, FALSE)))
    IN  IF max_length = 0 \/ Len(slug0) < max_length
        THEN slug0
        ELSE Strip(SubSeq(slug0, 1, max_length))

NameLength == 45

LabelLength == 63

\* _slugify_name that slugifies the name behind a prefix.
slugify_name_prefixed(name) == slugify(<<"j", "o", "b", " ">> \o name, NameLength)

slugify_name(name) == slugify(name, NameLength)

\* _slugify_label without max_length.
slugify_label_uncut(label) == slugify(label, 0)

slugify_label(label) == slugify(label, LabelLength)

HasKey(map, key) == \E i \in 1..Len(map) : map[i].k = key

Lookup(map, key) == map[CHOOSE i \in 1..Len(map) : map[i].k = key].v

KeysOf(map) == [i \in 1..Len(map) |-> map[i].k]

ValuesOf(map) == [i \in 1..Len(map) |-> map[i].v]

\* {**a, **b}: the keys of a in their order with the values b gives them,
\* then the keys only b has.
Merge(a, b) ==
    LET New(e) == ~HasKey(a, e.k)
    IN  [i \in 1..Len(a) |->
            IF HasKey(b, a[i].k) THEN [k |-> a[i].k, v |-> Lookup(b, a[i].k)] ELSE a[i]]
            \o SelectSeq(b, New)

LocalUrl == "http://localhost:4200/api"

LoopbackUrl == "http://127.0.0.1:4200/api"

\* value.replace("localhost", dns).replace("127.0.0.1", dns)
ReplaceLocal(value, dns) ==
    CASE value = LocalUrl -> "http://" \o dns \o ":4200/api"
      [] value = LoopbackUrl -> "http://" \o dns \o ":4200/api"
      [] OTHER -> value

get_environment_variables(o) ==
    LET env == Merge(o.base_environment, o.env)
        Fix(e) == IF e.k = "PREFECT_API_URL"
                  THEN [k |-> e.k, v |-> ReplaceLocal(e.v, o.api_dns_name)]
                  ELSE e
    IN  IF /\ HasKey(env, "PREFECT_API_URL")
           /\ ~HasKey(o.env, "PREFECT_API_URL")
           /\ o.api_dns_name # None
        THEN [i \in 1..Len(env) |-> Fix(env[i])]
        ELSE env

RECURSIVE Join(_)
Join(args) ==
    IF args = <<>>
    THEN ""
    ELSE IF Len(args) = 1
    THEN Head(args)
    ELSE Head(args) \o "," \o Join(Tail(args))

\* stable_hash(*args): a digest of the arguments in their order; two argument
\* lists have the same digest only when they are the same list.
stable_hash(args) == "#" \o Join(args)

\* key.replace('/', '~1')
ReplaceSlash(key) ==
    CASE key = "a/b" -> "a~1b"
      [] OTHER -> key

generate_name(o) ==
    IF o.name # <<>>
    THEN Str(slugify_name(o.name))
    ELSE "prefect-job-" \o stable_hash(o.command \o KeysOf(o.env) \o ValuesOf(o.env))

shortcut_customizations(o) ==
    LET env == get_environment_variables(o)
    IN  <<Op("add", <<"metadata", "namespace">>, Scalar(o.namespace)),
          Op("add", Container \o <<"image">>, Scalar(o.image))>>
        \o [i \in 1..Len(o.labels) |->
               Op("add", <<"metadata", "labels", ReplaceSlash(o.labels[i].k)>>,
                  Scalar(Str(slugify_label(o.labels[i].v))))]
        \o [i \in 1..Len(env) |->
               Op("add", Container \o <<"env", "-">>, EnvEntry(env[i].k, env[i].v))]
        \o (IF o.image_pull_policy # None
            THEN <<Op("add", Container \o <<"imagePullPolicy">>, Scalar(o.image_pull_policy))>>
            ELSE <<>>)
        \o (IF o.service_account_name # None
            THEN <<Op("add", <<"spec", "template", "spec", "serviceAccountName">>,
                      Scalar(o.service_account_name))>>
            ELSE <<>>)
        \o (IF o.command # <<>>
            THEN <<Op("add", Container \o <<"command">>, ListDoc(o.command))>>
            ELSE <<>>)
        \o <<Op("add", <<"metadata", "generateName">>, Scalar(generate_name(o)))>>

\* build_job with the two patches in the other order.
build_job_customizations_first(o) ==
    LET customized == Apply(o.customizations, o.job)
    IN  IF customized.ok THEN Apply(shortcut_customizations(o), customized.doc) ELSE Failed

build_job(o) ==
    LET job_manifest == Apply(shortcut_customizations(o), o.job)
    IN  IF job_manifest.ok THEN Apply(o.customizations, job_manifest.doc) ELSE Failed

Entry(key, value) == [k |-> key, v |-> value]

\* The fields of a KubernetesJob that is given none.
Plain ==
    [job |-> base_job_manifest, customizations |-> <<>>, namespace |-> "default",
     image |-> "prefecthq/prefect:2-latest", labels |-> <<>>, env |-> <<>>,
     image_pull_policy |-> None, service_account_name |-> None, command |-> <<>>,
     name |-> <<>>, base_environment |-> <<>>, api_dns_name |-> None]

NoSlug == [n |-> 0, of |-> "none", once |-> <<>>, twice |-> <<>>]

BuildIdle ==
    /\ kj = Plain
    /\ bpc = "idle"
    /\ errors = NoError
    /\ manifest = NoDoc
    /\ replay = Failed

SlugIdle == text = <<>> /\ slug = NoSlug

NameIdle == pairIn = <<Plain, Plain>> /\ pairOut = <<>>

----------------------------------------------------------------------------
(* Specifications *)

Configs ==
    [stream_output : BOOLEAN, task_status : BOOLEAN,
     pod_watch_timeout_seconds : Timeouts, job_watch_timeout_seconds : Timeouts,
     fault : Faults, assigned_name : JobNames]

InitRun ==
    /\ defaultConfig = 0
    /\ cluster = NoJob
    /\ job_name = [r \in Runs |-> None]
    /\ job = [r \in Runs |-> None]
    /\ pod = [r \in Runs |-> None]
    /\ last_phase = [r \in Runs |-> None]
    /\ elapsed = [r \in Runs |-> 0]
    /\ pending = [r \in Runs |-> FALSE]
    /\ otherPod = NoOtherPod
    /\ eventPods = [r \in Runs |-> <<>>]
    /\ createCalls = [r \in Runs |-> 0]
    /\ startedSignals = [r \in Runs |-> 0]
    /\ clients = [r \in Runs |-> {}]
    /\ streams = [r \in Runs |-> {}]
    /\ log = [r \in Runs |-> <<>>]
    /\ outcome = [r \in Runs |-> "none"]
    /\ result = [r \in Runs |-> {}]
    /\ podEvents = [r \in Runs |-> <<>>]
    /\ messages = [r \in Runs |-> <<>>]
    /\ jobEvents = [r \in Runs |-> <<>>]
    /\ logTarget = [r \in Runs |-> None]
    /\ waited = [r \in Runs |-> NoWait]
    /\ acquired = [r \in Runs |-> 0]
    /\ calls = [r \in Runs |-> {}]
    /\ configUsed = [r \in Runs |-> {}]

\* No object is being built, no text slugified and no name generated.
InitRest == InitRun /\ BuildIdle /\ SlugIdle /\ NameIdle

\* One invocation of run().
Init ==
    /\ \E c \in Configs : cfg = [r \in Runs |-> c]
    /\ pc = [r \in Runs |-> IF r = 1 THEN "start" ELSE "idle"]
    /\ InitRest

RunStep(r) ==
    \/ Configure(r)
    \/ BuildJob(r)
    \/ CreateJob(r)
    \/ SignalStarted(r)
    \/ GetJob(r)
    \/ OpenPodWatch(r)
    \/ PodWatchEvent(r)
    \/ PodWatchTimeout(r)
    \/ PodNeverStarted(r)
    \/ OpenLogStream(r)
    \/ SkipLogStream(r)
    \/ LogStreamEnd(r)
    \/ LogStreamDrop(r)
    \/ OpenJobWatch(r)
    \/ JobWatchEvent(r)
    \/ JobWatchTimeout(r)
    \/ ReadPodStatus(r)

Next == (\E r \in Runs : RunStep(r)) \/ Tick

Spec == Init /\ [][Next]_vars

\* Two invocations that differ only in stream_output, whose jobs follow the
\* same timeline (the cluster record) and which are dispatched to their
\* worker threads at the same moment.
InitPair ==
    /\ \E c \in Configs :
          /\ ~c.stream_output
          /\ cfg = [r \in Runs |-> IF r = 1 THEN c ELSE [c EXCEPT !.stream_output = TRUE]]
    /\ pc = [r \in Runs |-> "start"]
    /\ InitRest

InStep == (pc[1] = "monitor") = (pc[2] = "monitor")

TickInStep == InStep /\ Tick

NextPair == (\E r \in Runs : RunStep(r)) \/ TickInStep

SpecPair == InitPair /\ [][NextPair]_vars

\* Time passes and nothing happens in the cluster.
TimePasses == Tick /\ UNCHANGED cluster

\* One invocation in which every API call returns and every watch stream
\* ends when its timeout has elapsed: the invocation takes its next step
\* whenever it has one, and time passes in an open watch.  Nothing obliges
\* the cluster to change.
SpecLive ==
    /\ Init
    /\ [][Next]_vars
    /\ WF_vars(\E r \in Runs : RunStep(r))
    /\ WF_vars(TimePasses)

\* One invocation of run(), without injected faults and with the shortest
\* completion watch, for a job that may get a second pod.
InitPods ==
    /\ \E c \in Configs :
          /\ c.fault = "none"
          /\ c.task_status
          /\ c.job_watch_timeout_seconds = 1
          /\ c.assigned_name = "prefect-job-abc12"
          /\ cfg = [r \in Runs |-> c]
    /\ pc = [r \in Runs |-> IF r = 1 THEN "start" ELSE "idle"]
    /\ InitRest

NextPods == (\E r \in Runs : RunStep(r)) \/ Tick \/ StartOtherPod

SpecPods == InitPods /\ [][NextPods]_vars

----------------------------------------------------------------------------
\* Constructing a KubernetesJob and calling build_job() on it.

MaxCustomizations == 2

RECURSIVE Seqs(_, _)
Seqs(set, n) ==
    IF n = 0
    THEN {<<>>}
    ELSE LET shorter == Seqs(set, n - 1)
         IN  shorter \cup {Append(s, x) : s \in shorter, x \in set}

\* A template that has more than base_job_manifest() asks for.
LargerTemplate ==
    Graft(Graft(Graft(base_job_manifest,
        <<"spec", "ttlSecondsAfterFinished">>, Scalar("60")),
        <<"metadata", "labels", "team">>, Scalar("data")),
        Container \o <<"env", "0">>, EnvEntry("TZ", "UTC"))

GoodTemplates == {base_job_manifest, LargerTemplate}

RequiredPaths == DOMAIN base_job_manifest \ {<<>>}

\* The two templates, and each of them with one required value taken out or
\* one required value replaced by a string.
Templates ==
    GoodTemplates
        \cup {Prune(t, p) : t \in GoodTemplates, p \in RequiredPaths}
        \cup {Graft(t, p, Scalar("Always")) : t \in GoodTemplates, p \in RequiredPaths}

Rich ==
    [Plain EXCEPT
        !.labels = <<Entry("app", <<"M", "y", " ", "_", "a", "p", "p">>), Entry("a/b", <<"x">>)>>,
        !.env = <<Entry("MODE", "fast")>>,
        !.image_pull_policy = "Always",
        !.service_account_name = "runner",
        !.command = <<"python", "-m", "flow">>,
        !.name = <<"M", "y", " ", "J", "o", "b">>,
        !.base_environment = <<Entry("PREFECT_API_URL", LocalUrl)>>,
        !.api_dns_name = "host.docker.internal"]

\* Each field as in Plain or as in Rich; the base environment with and
\* without the API URL, which the env field may set as well.
FieldChoices ==
    {[Plain EXCEPT
        !.labels = l, !.env = e, !.image_pull_policy = sa[1],
        !.service_account_name = sa[2], !.command = c, !.name = n,
        !.base_environment = b[1], !.api_dns_name = b[2]] :
        l \in {Plain.labels, Rich.labels},
        e \in {Plain.env, Rich.env, <<Entry("PREFECT_API_URL", "http://api:4200/api")>>},
        sa \in {<<None, None>>, <<"Always", "runner">>},
        c \in {Plain.command, Rich.command},
        n \in {Plain.name, Rich.name},
        b \in {<<Plain.base_environment, None>>, <<Rich.base_environment, None>>,
               <<Rich.base_environment, Rich.api_dns_name>>}}

Custom == Scalar("custom")

\* One customization for the path of each shortcut, and customizations that
\* take a required value out, replace the parent of one, and add a new value.
CustomOps ==
    {Op("add", <<"metadata", "namespace">>, Custom),
     Op("add", Container \o <<"image">>, Custom),
     Op("add", <<"metadata", "labels", "app">>, Custom),
     Op("add", Container \o <<"env", "-">>, EnvEntry("MODE", "custom")),
     Op("add", Container \o <<"imagePullPolicy">>, Custom),
     Op("add", <<"spec", "template", "spec", "serviceAccountName">>, Custom),
     Op("replace", Container \o <<"command">>, ListDoc(<<"custom">>)),
     Op("add", <<"metadata", "generateName">>, Custom),
     Op("remove", <<"metadata", "labels">>, NoDoc),
     Op("add", <<"metadata">>, Graft(EmptyMap, <<"annotations">>, EmptyMap)),
     Op("add", <<"spec", "ttlSecondsAfterFinished">>, Scalar("100"))}

\* Label keys that hold a "~", and a name without a letter or a digit.
TildeLabels == {<<Entry("a~1b", <<"x">>)>>, <<Entry("a~b", <<"x">>)>>}

Marks == <<"!", "!">>

BuildInputs ==
    {[Plain EXCEPT !.job = t] : t \in Templates}
        \cup {[Plain EXCEPT !.job = t, !.labels = l, !.name = n] :
                 t \in GoodTemplates, l \in {Plain.labels} \cup TildeLabels,
                 n \in {Plain.name, Marks}}
        \cup {[f EXCEPT !.job = t, !.customizations = c] :
                 f \in FieldChoices, t \in GoodTemplates, c \in Seqs(CustomOps, 1)}
        \cup {[Rich EXCEPT !.job = t, !.customizations = c] :
                 t \in GoodTemplates, c \in Seqs(CustomOps, MaxCustomizations)}

\* No invocation of run().
NoRun ==
    /\ cfg = [r \in Runs |-> CHOOSE c \in Configs : TRUE]
    /\ pc = [r \in Runs |-> "idle"]
    /\ InitRun

InitBuild ==
    /\ NoRun
    /\ kj \in BuildInputs
    /\ bpc = "new"
    /\ errors = NoError
    /\ manifest = NoDoc
    /\ replay = Failed
    /\ SlugIdle
    /\ NameIdle

\* The first validator of the job field with "remove" for "add": the diff
\* read as if it led from the required template to the given one.
ConstructDiffReversed ==
    /\ bpc = "new"
    /\ LET value == kj.job
           missing == {o.path : o \in {x \in Range(from_diff(value, base_job_manifest)) : x.op = "remove"}}
       IN  IF missing # {}
           THEN bpc' = "rejected" /\ errors' = [kind |-> "missing", paths |-> missing]
           ELSE IF incompatible(value) # {}
           THEN bpc' = "rejected" /\ errors' = [kind |-> "incompatible", paths |-> incompatible(value)]
           ELSE bpc' = "valid" /\ errors' = NoError
    /\ UNCHANGED <<runVars, kj, manifest, replay, text, slug, pairIn, pairOut>>

\* The validators of the job field without the second one.
ConstructUnchecked ==
    /\ bpc = "new"
    /\ LET value == kj.job
       IN  IF missing_paths(value) # {}
           THEN bpc' = "rejected" /\ errors' = [kind |-> "missing", paths |-> missing_paths(value)]
           ELSE bpc' = "valid" /\ errors' = NoError
    /\ UNCHANGED <<runVars, kj, manifest, replay, text, slug, pairIn, pairOut>>

\* KubernetesJob(...): the validators of the job field, in their order; the
\* first ValueError ends the validation of the field.
Construct ==
    /\ bpc = "new"
    /\ LET value == kj.job
       IN  IF missing_paths(value) # {}
           THEN bpc' = "rejected" /\ errors' = [kind |-> "missing", paths |-> missing_paths(value)]
           ELSE IF incompatible(value) # {}
           THEN bpc' = "rejected" /\ errors' = [kind |-> "incompatible", paths |-> incompatible(value)]
           ELSE bpc' = "valid" /\ errors' = NoError
    /\ UNCHANGED <<runVars, kj, manifest, replay, text, slug, pairIn, pairOut>>

\* build_job() that patches the base job itself.
BuildInPlace ==
    /\ bpc = "valid"
    /\ LET built == build_job(kj)
       IN  IF built.ok
           THEN bpc' = "built" /\ manifest' = built.doc /\ kj' = [kj EXCEPT !.job = built.doc]
           ELSE bpc' = "failed" /\ manifest' = NoDoc /\ kj' = kj
    /\ UNCHANGED <<runVars, errors, replay, text, slug, pairIn, pairOut>>

\* build_job() on the constructed object; a patch that cannot be applied
\* raises.
Build ==
    /\ bpc = "valid"
    /\ LET built == build_job(kj)
       IN  IF built.ok
           THEN bpc' = "built" /\ manifest' = built.doc
           ELSE bpc' = "failed" /\ manifest' = NoDoc
    /\ UNCHANGED <<runVars, kj, errors, replay, text, slug, pairIn, pairOut>>

\* The manifest is diffed against the base job, the diff is applied to the
\* base job, and the customizations are applied to the outcome.
Replay ==
    /\ bpc = "built"
    /\ LET rebuilt == Apply(from_diff(kj.job, manifest), kj.job)
       IN  replay' = IF rebuilt.ok THEN Apply(kj.customizations, rebuilt.doc) ELSE Failed
    /\ bpc' = "replayed"
    /\ UNCHANGED <<runVars, kj, errors, manifest, text, slug, pairIn, pairOut>>

NextBuild == Construct \/ Build \/ Replay

SpecBuild == InitBuild /\ [][NextBuild]_vars

----------------------------------------------------------------------------
\* _slugify_name and _slugify_label applied to a text, and to what they
\* returned.

MaxRun == 64

RECURSIVE Rep(_, _)
Rep(c, n) == IF n = 0 THEN <<>> ELSE <<c>> \o Rep(c, n - 1)

\* Texts of every length up to the two caps and beyond, with characters the
\* pattern matches at either end.
SlugTexts ==
    {pre \o Rep("a", n) \o post :
        pre \in {<<>>, <<" ">>, <<"M", "y", " ", "_">>},
        n \in 0..MaxRun,
        post \in {<<>>, <<"!", "!">>, <<"-", " ", "b">>}}

InitSlug ==
    /\ NoRun
    /\ BuildIdle
    /\ NameIdle
    /\ text \in SlugTexts
    /\ slug = NoSlug

SlugifyName ==
    /\ slug.n = 0
    /\ slug' = [n |-> 1, of |-> "name", once |-> slugify_name(text), twice |-> <<>>]
    /\ UNCHANGED <<runVars, kj, bpc, errors, manifest, replay, text, pairIn, pairOut>>

SlugifyLabel ==
    /\ slug.n = 0
    /\ slug' = [n |-> 1, of |-> "label", once |-> slugify_label(text), twice |-> <<>>]
    /\ UNCHANGED <<runVars, kj, bpc, errors, manifest, replay, text, pairIn, pairOut>>

SlugifyAgain ==
    /\ slug.n = 1
    /\ slug' = [slug EXCEPT !.n = 2,
                            !.twice = IF slug.of = "name"
                                      THEN slugify_name(slug.once)
                                      ELSE slugify_label(slug.once)]
    /\ UNCHANGED <<runVars, kj, bpc, errors, manifest, replay, text, pairIn, pairOut>>

NextSlug == SlugifyName \/ SlugifyLabel \/ SlugifyAgain

SpecSlug == InitSlug /\ [][NextSlug]_vars

----------------------------------------------------------------------------
\* The generateName of two KubernetesJob objects that are given no name.

MaxArgs == 2

Words == {"a", "b"}

\* The mappings from some of the words to words, in each insertion order.
WordMaps ==
    {<<>>}
        \cup {<<Entry(k, v)>> : k \in Words, v \in Words}
        \cup {<<Entry(ks[1], v1), Entry(ks[2], v2)>> :
                 ks \in {x \in Words \X Words : x[1] # x[2]}, v1 \in Words, v2 \in Words}

Unnamed == {[Plain EXCEPT !.command = c, !.env = e] : c \in Seqs(Words, MaxArgs), e \in WordMaps}

InitName ==
    /\ NoRun
    /\ BuildIdle
    /\ SlugIdle
    /\ pairIn \in Unnamed \X Unnamed
    /\ pairOut = <<>>

\* The value of the shortcut for /metadata/generateName.
GenerateName ==
    /\ Len(pairOut) < 2
    /\ LET o == pairIn[Len(pairOut) + 1]
           shortcut == CHOOSE s \in Range(shortcut_customizations(o)) :
                           s.path = <<"metadata", "generateName">>
       IN  pairOut' = Append(pairOut, shortcut.value[<<>>].v)
    /\ UNCHANGED <<runVars, kj, bpc, errors, manifest, replay, text, slug, pairIn>>

NextName == GenerateName

SpecName == InitName /\ [][NextName]_vars

----------------------------------------------------------------------------
(* Properties of run() *)

Degraded(r) == {KubernetesJobResult(Sentinel, job_name[r])}

ReturnedDegraded(r) == outcome[r] = "returned" /\ result[r] = Degraded(r)

\* C1: once _create_job has succeeded, run() returns a result and raises
\* nothing, whatever the cluster does afterwards; only configuration and
\* submission errors escape as exceptions.
C1_OnlyConfigAndSubmissionErrorsEscape ==
    \A r \in Runs : outcome[r] = "raised" => ~Ended(r, "submit", "ok")

\* C2: when the pod watch ends at its timeout without a pod that left
\* Pending, run() returns {-1, job name} and opens no log stream, no
\* completion watch and makes no pod-status read.
C2_PodWatchTimeoutIsDegraded ==
    \A r \in Runs :
        Ended(r, "pod_watch", "timeout") =>
            /\ ~Started(r, "log_stream")
            /\ ~Started(r, "job_watch")
            /\ ~Started(r, "extract")
            /\ pc[r] \in {"pod_returned", "done"}
            /\ Finished(r) => ReturnedDegraded(r)

C2_Witness ==
    \E r \in Runs :
        /\ Ended(r, "pod_watch", "timeout")
        /\ last_phase[r] = "Pending"
        /\ Finished(r)
        /\ ReturnedDegraded(r)

\* C3: when the completion watch ends at its timeout without an event that
\* carries a completion timestamp, run() returns {-1, job name} without
\* raising and the pod status is not read.
C3_JobWatchTimeoutIsDegraded ==
    \A r \in Runs :
        Ended(r, "job_watch", "timeout") =>
            /\ Finished(r)
            /\ ReturnedDegraded(r)
            /\ ~Started(r, "extract")

C3_Witness ==
    \E r \in Runs :
        /\ Ended(r, "pod_watch", "ok")
        /\ Ended(r, "job_watch", "timeout")
        /\ ReturnedDegraded(r)

JobDeleted == cluster # NoJob /\ ~cluster.jobExists

\* C5: when the job is deleted between the submission and the end of the
\* completion watch, run() returns {-1, job name} and raises nothing.
C5_DeletedJobIsDegraded ==
    \A r \in Runs :
        Finished(r) /\ Ended(r, "submit", "ok") /\ JobDeleted => ReturnedDegraded(r)

\* C6: when the pod returned by the pod watch no longer exists at the
\* log-stream open or at the pod-status read, run() returns {-1, job name}
\* instead of raising.
C6_MissingPodIsDegraded ==
    \A r \in Runs :
        Ended(r, "log_stream", "notfound") \/ Ended(r, "extract", "notfound") =>
            /\ outcome[r] # "raised"
            /\ Finished(r) => ReturnedDegraded(r)

LogStreamFailed(r) ==
    \/ Ended(r, "log_stream", "notfound")
    \/ Ended(r, "log_stream", "error")
    \/ Ended(r, "log_stream", "dropped")

\* C7: with stream_output set, a log stream that fails to open or drops
\* never makes run() raise: the pipeline goes on to the completion watch.
C7_LogFailureIsNotFatal ==
    \A r \in Runs :
        cfg[r].stream_output /\ LogStreamFailed(r) =>
            /\ outcome[r] # "raised"
            /\ pc[r] \in {"logs_done", "job_watch", "completed", "done"}
            /\ Finished(r) => Started(r, "job_watch")

\* C8: two invocations that differ only in stream_output (and in what the
\* log stream does) and face the same timeline end the same way, with the
\* same {status_code, identifier}.
C8_ResultIndependentOfStreaming ==
    Finished(1) /\ Finished(2) =>
        outcome[1] = outcome[2] /\ result[1] = result[2]

Rank(stage) ==
    CASE stage = "build" -> 1
      [] stage = "submit" -> 2
      [] stage = "job_read" -> 3
      [] stage = "pod_watch" -> 4
      [] stage = "log_stream" -> 5
      [] stage = "job_watch" -> 6
      [] stage = "extract" -> 7

WatchStages == {"pod_watch", "log_stream", "job_watch"}

\* A stage that has started and has no entry for its end.
Open(r, stage) ==
    /\ Started(r, stage)
    /\ ~\E i \in 1..Len(log[r]) : log[r][i][1] = stage /\ log[r][i][2] # "start"

\* C9: the stages start in the order build, submit, pod watch, log stream,
\* completion watch, result extraction; each starts only after the one
\* before it has ended, none starts after a stage has failed (an error, a
\* missing object or a timeout), and at most one of the pod watch, the log
\* stream and the completion watch is open at any time.
C9_StagesRunInSequence ==
    \A r \in Runs :
        /\ \A i, j \in 1..Len(log[r]) :
               i < j /\ log[r][i][2] = "start" /\ log[r][j][2] = "start" =>
                   Rank(log[r][i][1]) < Rank(log[r][j][1])
        /\ \A i \in 2..Len(log[r]) :
               log[r][i][2] = "start" => log[r][i-1][2] \in {"ok", "dropped"}
        /\ \A i \in 1..Len(log[r]) :
               log[r][i][2] \in {"error", "notfound", "timeout"} => i = Len(log[r])
        /\ Cardinality({s \in WatchStages : Open(r, s)}) <= 1

C9_Witness ==
    \E r \in Runs :
        /\ Finished(r)
        /\ Ended(r, "pod_watch", "ok")
        /\ Ended(r, "log_stream", "ok")
        /\ Ended(r, "job_watch", "ok")
        /\ Ended(r, "extract", "ok")

\* C10: create_namespaced_job is called at most once per invocation,
\* whether it succeeds or fails and whatever the later stages observe.
C10_AtMostOneSubmission ==
    \A r \in Runs : createCalls[r] <= 1

C10_Witness ==
    \E r \in Runs :
        /\ Finished(r)
        /\ createCalls[r] = 1
        /\ Ended(r, "job_watch", "timeout")

\* C11: every invocation whose submission succeeded eventually returns a
\* result; no stage waits for ever, also when the container never closes
\* its output or the job never completes.
C11_EventuallyReturns ==
    \A r \in Runs :
        Ended(r, "submit", "ok") ~> (Finished(r) /\ outcome[r] = "returned")

\* C12: on every exit path of every stage the clients and streams the stage
\* opened are closed: a stream is open only while its stage is, and when
\* run() has returned or raised no client and no stream is open.
C12_NothingLeftOpen ==
    \A r \in Runs :
        /\ \A s \in streams[r] : Open(r, s)
        /\ clients[r] # {} => \E s \in WatchStages : Open(r, s)
        /\ Finished(r) => clients[r] = {} /\ streams[r] = {}

C12_Witness ==
    \E r \in Runs :
        /\ Finished(r)
        /\ outcome[r] = "raised"
        /\ Ended(r, "log_stream", "error")
        /\ Ended(r, "pod_watch", "ok")
        /\ clients[r] = {} /\ streams[r] = {}

----------------------------------------------------------------------------
(* Properties of the manifest builder *)

Lacking(value) == {p \in DOMAIN base_job_manifest : p \notin DOMAIN value}

Differing(value) ==
    {p \in DOMAIN base_job_manifest \cap DOMAIN value : value[p] # base_job_manifest[p]}

Built == bpc \in {"built", "replayed"}

\* C13: a base job that lacks a path of base_job_manifest() is rejected when
\* the object is constructed; the error names the missing paths (every
\* missing path is a path the error names or lies below one), no manifest is
\* built and no API call is made.
C13_MissingPathIsRejected ==
    (bpc # "new" /\ Lacking(kj.job) # {}) =>
        /\ bpc = "rejected"
        /\ \A p \in Lacking(kj.job) : \E q \in errors.paths : IsPrefix(Keys(q), p)
        /\ manifest = NoDoc
        /\ \A r \in Runs : createCalls[r] = 0 /\ pc[r] = "idle"

C13_Witness ==
    /\ bpc = "rejected"
    /\ errors.kind = "missing"
    /\ <<"spec", "template", "spec", "restartPolicy">> \in Lacking(kj.job)
    /\ <<"spec", "ttlSecondsAfterFinished">> \in DOMAIN kj.job

\* C14: a base job that has every required path and another value than
\* base_job_manifest() at one of them is rejected when the object is
\* constructed, the error naming each such path; a base job that has the
\* required paths with the required values, and more, is accepted.
C14_IncompatibleValueIsRejected ==
    (bpc # "new" /\ Lacking(kj.job) = {}) =>
        IF Differing(kj.job) # {}
        THEN /\ bpc = "rejected"
             /\ errors.kind = "incompatible"
             /\ \A p \in Differing(kj.job) : \E q \in errors.paths : Keys(q) = p
             /\ manifest = NoDoc
        ELSE bpc # "rejected"

C14_Witness ==
    /\ bpc = "rejected"
    /\ errors.kind = "incompatible"
    /\ Lacking(kj.job) = {}
    /\ kj.job[<<"spec", "template", "spec", "restartPolicy">>] = S("Always")

\* C15: the manifest build_job() returns has every path of the base job,
\* whatever the customizations are.
C15_BasePathsRemain ==
    Built => \A p \in DOMAIN kj.job : p \in DOMAIN manifest

ShortcutPaths == {s.path : s \in Range(shortcut_customizations(kj))}

Overlap(p, q) == IsPrefix(p, q) \/ IsPrefix(q, p)

\* Where the manifest holds what an operation at ptr put there: the last
\* entry of the list for a path that ends in "-".
Target(ptr, d) ==
    IF Last(ptr) = "-"
    THEN Front(Keys(ptr)) \o <<IdxStr[ListLen(d, Front(Keys(ptr)))]>>
    ELSE Keys(ptr)

\* The customization at index i sets the path of a shortcut, and no later
\* customization touches that path, a part of it or a parent of it.
Overrides(i) ==
    LET c == kj.customizations[i]
    IN  /\ c.op \in {"add", "replace"}
        /\ c.path \in ShortcutPaths
        /\ \A j \in (i + 1)..Len(kj.customizations) : ~Overlap(kj.customizations[j].path, c.path)

\* C16: the customizations are applied after the shortcuts: at the path of a
\* shortcut that a customization sets, the manifest has the value of the
\* customization.
C16_CustomizationsWin ==
    Built =>
        \A i \in 1..Len(kj.customizations) :
            Overrides(i) =>
                Sub(manifest, Target(kj.customizations[i].path, manifest))
                    = kj.customizations[i].value

C16_Witness ==
    /\ bpc = "built"
    /\ Len(kj.customizations) = 2
    /\ Overrides(1)
    /\ kj.customizations[1].path = <<"metadata", "namespace">>
    /\ manifest[<<"metadata", "namespace">>] = S("custom")
    /\ kj.namespace # "custom"

\* C18: the diff from the base job to the manifest, applied to the base job
\* and followed by the customizations, gives the manifest again.
C18_ReplayReproduces ==
    bpc = "replayed" => replay.ok /\ replay.doc = manifest

SameInputs ==
    /\ pairIn[1].command = pairIn[2].command
    /\ Range(pairIn[1].env) = Range(pairIn[2].env)

\* C19: two objects without a name have the same generateName exactly when
\* they have the same command and the same env mapping.
C19_SameNameIffSameInputs ==
    Len(pairOut) = 2 => ((pairOut[1] = pairOut[2]) <=> SameInputs)

\* C20: _slugify_name and _slugify_label return for what they returned what
\* they returned.
C20_SlugifyIsIdempotent ==
    slug.n = 2 => slug.twice = slug.once

C20_Witness ==
    /\ slug.n = 2
    /\ slug.of = "name"
    /\ Len(text) > NameLength
    /\ Len(slug.once) = NameLength
    /\ slug.once # SubSeq(text, 1, NameLength)
    /\ slug.twice = slug.once

\* The letters and digits of this model, and the dash.
AlnumDash == {"a", "b", "j", "m", "o", "p", "x", "y", "J", "M", "0", "7", "-"}

Cap == IF slug.of = "name" THEN NameLength ELSE LabelLength

----------------------------------------------------------------------------
(* Properties of the stages of _watch_job() *)

LastOf(seq) == seq[Len(seq)]

\* The pod watch, the completion watch and the status read all succeeded.
Observed(r) ==
    /\ Ended(r, "pod_watch", "ok")
    /\ Ended(r, "job_watch", "ok")
    /\ Ended(r, "extract", "ok")

\* C22: a returned status_code other than -1 is the exit code of the
\* terminated container of a pod that was seen out of Pending and of a job
\* that was seen with a completion time; a returned status_code is -1
\* exactly when one of the stages did not succeed.
C22_StatusCodeIsExitCodeOrSentinel ==
    \A r \in Runs :
        outcome[r] = "returned" =>
            \A res \in result[r] :
                /\ res.status_code # Sentinel =>
                       /\ podEvents[r] # <<>>
                       /\ LastOf(podEvents[r]).phase # "Pending"
                       /\ jobEvents[r] # <<>>
                       /\ LastOf(jobEvents[r]).completion_time
                       /\ res.status_code \in cluster.terminated
                /\ res.status_code = Sentinel <=> ~Observed(r)

C22_Witness ==
    \E r \in Runs :
        /\ outcome[r] = "returned"
        /\ Observed(r)
        /\ Len(podEvents[r]) > 1
        /\ result[r] = {KubernetesJobResult(137, job[r])}

LaterStages == {"job_read", "pod_watch", "log_stream", "job_watch", "extract"}

\* C23: when the create call fails, run() ends with the exception, the call
\* is not made again, and no later stage is started.
C23_FailedSubmissionEndsRun ==
    \A r \in Runs :
        Ended(r, "submit", "error") =>
            /\ Finished(r)
            /\ outcome[r] = "raised"
            /\ createCalls[r] = 1
            /\ \A s \in LaterStages : ~Started(r, s)
            /\ clients[r] = {}
            /\ logTarget[r] = None

C23_Witness ==
    \E r \in Runs :
        /\ Ended(r, "submit", "error")
        /\ Ended(r, "build", "ok")
        /\ outcome[r] = "raised"

\* C24: the pod watch returns at the first event whose phase is not
\* "Pending", with the pod of that event: every event taken before it was
\* "Pending", and none is taken after it.
C24_FirstNonPendingEventReturns ==
    \A r \in Runs :
        /\ \A i \in 1..(Len(podEvents[r]) - 1) : podEvents[r][i].phase = "Pending"
        /\ Ended(r, "pod_watch", "ok")
               <=> (podEvents[r] # <<>> /\ LastOf(podEvents[r]).phase # "Pending")
        /\ Ended(r, "pod_watch", "ok") => pod[r] = LastOf(podEvents[r]).pod

C24_Witness ==
    \E r \in Runs :
        /\ Ended(r, "pod_watch", "ok")
        /\ Len(podEvents[r]) = 2
        /\ LastOf(podEvents[r]).phase = "Running"
        /\ Finished(r)

\* The phases of the events whose phase is not the phase of the event
\* before; prev is the phase before the first event.
RECURSIVE Changes(_, _)
Changes(events, prev) ==
    IF events = <<>>
    THEN <<>>
    ELSE (IF Head(events).phase # prev THEN <<Head(events).phase>> ELSE <<>>)
             \o Changes(Tail(events), Head(events).phase)

\* C25: the pod watch logs a phase for exactly the events whose phase
\* differs from the phase of the event before (the first event always), in
\* the order of the events; whether the watch returns a pod or times out
\* follows from the phases of the events alone.
C25_PhaseChangesAreLogged ==
    \A r \in Runs :
        /\ messages[r] = Changes(podEvents[r], None)
        /\ Ended(r, "pod_watch", "timeout") =>
               \A i \in 1..Len(podEvents[r]) : podEvents[r][i].phase = "Pending"
        /\ Ended(r, "pod_watch", "ok") => LastOf(podEvents[r]).phase # "Pending"

C25_Witness ==
    \E r \in Runs :
        /\ Len(podEvents[r]) = 2
        /\ messages[r] = <<"Pending">>
        /\ Ended(r, "pod_watch", "timeout")

\* C26: the completion watch succeeds at the first job event that has a
\* completion time: no event taken before it had one, an event without one
\* does not end the watch successfully, and after it the watch is closed and
\* the pod status is read next.
C26_FirstCompletedEventEndsWatch ==
    \A r \in Runs :
        /\ \A i \in 1..(Len(jobEvents[r]) - 1) : ~jobEvents[r][i].completion_time
        /\ Ended(r, "job_watch", "ok")
               <=> (jobEvents[r] # <<>> /\ LastOf(jobEvents[r]).completion_time)
        /\ Ended(r, "job_watch", "ok") =>
               /\ "job_watch" \notin streams[r]
               /\ pc[r] = "completed" \/ Started(r, "extract")

C26_Witness ==
    \E r \in Runs :
        /\ Ended(r, "job_watch", "ok")
        /\ Len(jobEvents[r]) = 2
        /\ Ended(r, "extract", "ok")

\* The entry a of the log of r comes before its entry b.
Before(r, a, b) ==
    \E i, j \in 1..Len(log[r]) : i < j /\ log[r][i] = a /\ log[r][j] = b

\* The entry b of the log of r comes right after an entry a.
RightAfter(r, a, b) ==
    \A j \in 1..Len(log[r]) : log[r][j] = b => (j > 1 /\ log[r][j - 1] = a)

\* C27: the log of a pod is read only when stream_output is set, only after
\* the pod watch returned a pod, and it is the log of that pod; when
\* stream_output is not set no log is read and the completion watch is
\* opened right after the pod watch.
C27_LogStreamOnlyWhenAsked ==
    \A r \in Runs :
        /\ Started(r, "log_stream") <=> logTarget[r] # None
        /\ Started(r, "log_stream") =>
               /\ cfg[r].stream_output
               /\ Before(r, <<"pod_watch", "ok">>, <<"log_stream", "start">>)
               /\ logTarget[r] = LastOf(podEvents[r]).pod
        /\ ~cfg[r].stream_output =>
               /\ ~Started(r, "log_stream")
               /\ RightAfter(r, <<"pod_watch", "ok">>, <<"job_watch", "start">>)

C27_Witness ==
    \E r \in Runs :
        /\ cfg[r].stream_output
        /\ Ended(r, "log_stream", "ok")
        /\ logTarget[r] = PodName
        /\ Started(r, "job_watch")

\* The uses of the cluster API that the invocation r has begun.
Uses(r) == {i \in 1..Len(log[r]) : log[r][i][2] = "start" /\ log[r][i][1] # "build"}

\* C28: every use of the cluster API has a client of its own, which is
\* closed before the next use begins: as many clients were made as uses were
\* begun, at most one is open at a time, and none is open outside the two
\* watches and the log stream.
C28_OneClientPerUse ==
    \A r \in Runs :
        /\ acquired[r] = Cardinality(Uses(r))
        /\ Cardinality(clients[r]) <= 1
        /\ pc[r] \notin WaitStages => clients[r] = {}

C28_Witness ==
    \E r \in Runs :
        /\ acquired[r] = 6
        /\ Finished(r)
        /\ clients[r] = {}

\* C29: each watch is bounded by its own timeout, counted from when it was
\* opened: it times out when it has waited that long and succeeds only
\* before, however long the stages before it have waited.
C29_TimeoutsAreIndependent ==
    \A r \in Runs :
        /\ waited[r]["pod_watch"] <= cfg[r].pod_watch_timeout_seconds
        /\ waited[r]["job_watch"] <= cfg[r].job_watch_timeout_seconds
        /\ Ended(r, "pod_watch", "timeout") =>
               waited[r]["pod_watch"] = cfg[r].pod_watch_timeout_seconds
        /\ Ended(r, "pod_watch", "ok") =>
               waited[r]["pod_watch"] < cfg[r].pod_watch_timeout_seconds
        /\ Ended(r, "job_watch", "timeout") =>
               waited[r]["job_watch"] = cfg[r].job_watch_timeout_seconds
        /\ Ended(r, "job_watch", "ok") =>
               waited[r]["job_watch"] < cfg[r].job_watch_timeout_seconds

C29_Witness ==
    \E r \in Runs :
        /\ Ended(r, "job_watch", "timeout")
        /\ waited[r]["pod_watch"] >= 1
        /\ waited[r]["log_stream"] >= 1
        /\ cfg[r].job_watch_timeout_seconds < cfg[r].pod_watch_timeout_seconds
        /\ waited[r]["job_watch"] = cfg[r].job_watch_timeout_seconds

Failures == {"timeout", "notfound", "error"}

\* How many times the invocation r has begun the stage s.
Starts(r, s) == Cardinality({i \in 1..Len(log[r]) : log[r][i] = <<s, "start">>})

\* C30: the pod watch, the log stream and the completion watch are each
\* opened at most once in an invocation, and once a stage has failed no
\* stage is begun.
C30_StageFailureIsFinal ==
    \A r \in Runs :
        /\ \A s \in WaitStages : Starts(r, s) <= 1
        /\ \A i, j \in 1..Len(log[r]) :
               (i < j /\ log[r][i][2] \in Failures) => log[r][j][2] # "start"

C30_Witness ==
    \E r \in Runs :
        /\ Ended(r, "pod_watch", "timeout")
        /\ Starts(r, "pod_watch") = 1
        /\ Finished(r)

\* The calls of the monitoring phase that name the job: the job read, the pod
\* watch (label selector job-name=...) and the completion watch (field
\* selector metadata.name=...).
JobCalls == {"read_job", "list_pod", "list_job"}

\* C31: the job name returned by the create call is fixed for the rest of the
\* invocation and is the only handle used afterwards: the job read, the
\* job-name label selector of the pod watch and the metadata.name field
\* selector of the completion watch all carry exactly that name, and the
\* identifier of every result returned by run() equals it.
C31_JobNameIsTheOnlyHandle ==
    \A r \in Runs :
        /\ job_name[r] # None => job_name[r] = cfg[r].assigned_name
        /\ \A c \in calls[r] :
               c[1] \in JobCalls => job_name[r] # None /\ c[2] = job_name[r]
        /\ \A x \in result[r] : x.identifier = job_name[r]

\* An invocation that went through all three calls and returned an exit code.
C31_Witness ==
    \E r \in Runs : \E x \in result[r] :
        /\ x.status_code # Sentinel
        /\ {c[1] : c \in calls[r]} \cap JobCalls = JobCalls
        /\ x.identifier = cfg[r].assigned_name

\* C32: concurrent invocations are independent: in every interleaving of two
\* invocations with different cluster_config, each one submits to, watches
\* and reads from the cluster selected by its own configuration; the
\* process-wide client configuration written by one invocation at the start
\* of run() is never read by the other.
C32_OwnConfigurationOnly ==
    \A r \in Runs : configUsed[r] \subseteq {r}

\* C36: with a task_status, started(job name) is signalled exactly once,
\* after the create call has returned the job name and before any watch or
\* read of the monitoring phase; it is never signalled when composition or
\* submission fails, and never without a task_status.
C36_StartedSignalledOnceAfterCreate ==
    \A r \in Runs :
        /\ startedSignals[r] <= 1
        /\ startedSignals[r] = 1 =>
               /\ cfg[r].task_status
               /\ Ended(r, "submit", "ok")
               /\ Call("started", cfg[r].assigned_name) \in calls[r]
        /\ \A c \in calls[r] : c[1] = "started" => c[2] = job_name[r] /\ c[2] # None
        /\ cfg[r].task_status /\ Started(r, "job_read") => startedSignals[r] = 1
        /\ Ended(r, "build", "error") \/ Ended(r, "submit", "error") =>
               startedSignals[r] = 0

\* The signal has been given and the monitoring phase has not begun.
C36_Witness ==
    \E r \in Runs :
        /\ startedSignals[r] = 1
        /\ Call("started", job_name[r]) \in calls[r]
        /\ ~Started(r, "job_read")

LabelsPath == <<"metadata", "labels">>

LabelKeys == {kj.labels[i].k : i \in 1..Len(kj.labels)}

\* C34: for every labels mapping, also one with a "/" or a "~" in a key, the
\* manifest built without customizations has under /metadata/labels, next to
\* the labels of the base job, exactly one entry per label: its key is the
\* original key and its value is the slugified label value.
C34_LabelKeysAreKept ==
    kj.customizations = <<>> /\ bpc \in {"built", "failed", "replayed"} =>
        /\ Built
        /\ Kids(manifest, LabelsPath) = Kids(kj.job, LabelsPath) \cup LabelKeys
        /\ \A i \in 1..Len(kj.labels) :
               manifest[LabelsPath \o <<kj.labels[i].k>>]
                   = S(Str(slugify_label(kj.labels[i].v)))

\* C35: the generated name prefix does not depend on the order of the env
\* mapping: two objects without a name that have the same command and the
\* same set of env pairs, inserted in whatever order, have the same
\* /metadata/generateName.
C35_EnvOrderDoesNotMatter ==
    Len(pairOut) = 2 /\ SameInputs => pairOut[1] = pairOut[2]

\* The namespace argument of the create call, the job read, the pod watch,
\* the log read, the completion watch and the pod-status read.
api_namespace(o) == o.namespace

NamespacePath == <<"metadata", "namespace">>

\* C37: the namespace given to every API call of an invocation is one and the
\* same, and it is the /metadata/namespace of the manifest that is submitted,
\* for every configuration, also one whose customizations set
\* /metadata/namespace.
C37_CallsUseManifestNamespace ==
    Built =>
        /\ NamespacePath \in DOMAIN manifest
        /\ manifest[NamespacePath] = S(api_namespace(kj))

GenerateNamePath == <<"metadata", "generateName">>

\* C38: for every configuration, with or without a name, with or without a
\* command, with any env (and label keys without a "~"), build_job() without
\* customizations succeeds and the manifest has a /metadata/generateName that
\* is not empty: the slugified name when a name is given, and otherwise
\* "prefect-job-" followed by the hash.
C38_GenerateNameIsNeverEmpty ==
    /\ kj.customizations = <<>>
    /\ kj.labels \notin TildeLabels
    /\ bpc \in {"built", "failed", "replayed"}
    => /\ Built
       /\ GenerateNamePath \in DOMAIN manifest
       /\ manifest[GenerateNamePath].v # ""
       /\ manifest[GenerateNamePath].v =
              IF kj.name # <<>>
              THEN Str(slugify_name(kj.name))
              ELSE "prefect-job-"
                       \o stable_hash(kj.command \o KeysOf(kj.env) \o ValuesOf(kj.env))

PodCalls == {"read_log", "read_status"}

\* C39: the pod whose logs are streamed and whose exit code is reported is the
\* pod the pod watch returned, the first pod of the job seen in a phase
\* other than Pending: also when the job runs several pods, the log read and
\* the status read are given that pod's name, and a status_code other than
\* -1 is the exit code of that pod's first container, read after the
\* completion watch succeeded.
C39_ReportedPodIsWatchedPod ==
    \A r \in Runs :
        /\ pod[r] # None =>
               /\ podEvents[r] # <<>>
               /\ LastOf(podEvents[r]).pod = pod[r]
               /\ LastOf(podEvents[r]).phase # "Pending"
               /\ \A i \in 1..(Len(podEvents[r]) - 1) : podEvents[r][i].phase = "Pending"
        /\ logTarget[r] # None => logTarget[r] = pod[r]
        /\ \A c \in calls[r] : c[1] \in PodCalls => pod[r] # None /\ c[2] = pod[r]
        /\ \A x \in result[r] :
               x.status_code # Sentinel =>
                   /\ Ended(r, "job_watch", "ok")
                   /\ pod[r] # None
                   /\ x.status_code \in ThePod(pod[r]).terminated

\* The job ran two pods that exited with different codes; the watch returned
\* the second one, its logs were streamed and its exit code was returned.
C39_Witness ==
    \E r \in Runs : \E x \in result[r] :
        /\ pod[r] = OtherPodName
        /\ logTarget[r] = OtherPodName
        /\ cluster.terminated # {}
        /\ cluster.terminated # otherPod.terminated
        /\ x.status_code \in otherPod.terminated

====
